---- MODULE Spec2Model ----
(***************************************************************************)
(* Verification model of the D1 remote-table virtualization engine:        *)
(* the LIMIT/TOP_N pushdown rewriter, the d1_scan table function, the      *)
(* complex-filter pushdown and the write-buffering transaction.            *)
(***************************************************************************)
EXTENDS Integers, Sequences, FiniteSets, TLC

VARIABLES
    \* --- logical plan and scan bindings (d1_attach.cpp) ---
    plan,            \* the host's logical plan (tree of operator records)
    origPlan,        \* ghost: the plan as bound, before any rewrite
    prevPlan,        \* ghost: the plan before the latest rewriter run
    bind_limit,      \* D1ScanBindData::limit, per binding id
    prevLimit,       \* ghost: bind_limit before the latest rewriter run
    runs,            \* ghost: number of rewriter runs so far
    visited          \* ghost: the positions the latest rewriter run was called on

planVars == <<plan, origPlan, prevPlan, bind_limit, prevLimit, runs, visited>>

VARIABLES
    \* --- one d1_scan binding (id 1) and its remote table (d1_attach.cpp) ---
    remote,          \* the remote table's rows, in the remote's order
    where_clause,    \* D1ScanBindData::where_clause
    executed,        \* D1ScanBindData::executed
    result,          \* D1ScanBindData::result
    current_row,     \* D1ScanGlobalState::current_row
    output,          \* the DataChunk the latest pull returned
    raised,          \* the exception the latest pull raised ("" = none)
    emitted,         \* ghost: every row the scan has returned, in order
    sql_log,         \* ghost: the SELECT statements sent to the remote
    pulls,           \* ghost: number of D1ScanFunction calls
    failed,          \* ghost: some pull raised an exception
    pre_row          \* ghost: current_row before the latest pull

scanVars == <<remote, where_clause, executed, result, current_row, output,
              raised, emitted, sql_log, pulls, failed, pre_row>>

VARIABLES
    \* --- complex-filter pushdown on the binding (d1_attach.cpp) ---
    filters,           \* the host's residual filter list (in/out argument)
    given,             \* ghost: the filter list the latest invocation received
    sql_conditions,    \* the local sql_conditions of the latest invocation
    filters_to_remove, \* the local filters_to_remove of the latest invocation
    pushed_log,        \* ghost: SQL texts of all removed filters, in push order
    prev_where,        \* ghost: where_clause before the latest invocation
    invocations        \* ghost: number of pushdown invocations so far

filterVars == <<filters, given, sql_conditions, filters_to_remove, pushed_log,
                prev_where, invocations>>

VARIABLES
    \* --- translation of one comparison (d1_attach.cpp) ---
    comp,            \* the bound comparison handed to ExpressionToSQL
    tuple,           \* a table row the comparison is evaluated on
    comp_sql,        \* the text ExpressionToSQL returned
    translated       \* ExpressionToSQL has been applied to comp

exprVars == <<comp, tuple, comp_sql, translated>>

VARIABLES
    \* --- one D1Transaction (storage/d1_transaction.cpp) ---
    is_started,          \* D1Transaction::is_started
    buffered_statements, \* D1Transaction::buffered_statements
    batch_result,        \* what D1ExecuteBatch returned to the latest call
    commit_error,        \* the exception the latest call raised ("" = none)
    last_call,           \* ghost: the method called last
    pre_buffer,          \* ghost: buffered_statements before the latest call
    pre_started,         \* ghost: is_started before the latest call
    batch_calls,         \* ghost: number of batch calls made so far
    last_batch,          \* ghost: the statements the latest call sent as a batch
    pre_calls,           \* ghost: batch_calls before the latest call
    sent_upto,           \* ghost: leading buffered statements already sent once
    resent,              \* ghost: some statement was sent in two batch calls
    last_read            \* ghost: the statement the latest call sent as a read

txnVars == <<is_started, buffered_statements, batch_result, commit_error,
             last_call, pre_buffer, pre_started, batch_calls, last_batch,
             pre_calls, sent_upto, resent, last_read>>

VARIABLES
    \* --- the transaction manager (storage/d1_transaction_manager.cpp) ---
    transactions,    \* D1TransactionManager::transactions, as its set of keys
    returned         \* the ErrorData the latest manager call returned ("" = none)

mgrVars == <<transactions, returned>>

VARIABLES
    \* --- the registry of attached databases (d1_attach.cpp) ---
    g_d1_attached_databases, \* the map, as the set of its entries (alias = key)
    g_d1_registry_mutex,     \* 0 = free, else the thread holding the mutex
    pc,                      \* per thread: where it is in D1AttachBind
    attaching,               \* per thread: the local D1AttachedDatabase and alias
    last_writer,             \* ghost: per alias, what the last completed attach
                             \* stored (NoEntry when never attached or detached)
    overwrote,               \* ghost: an attach replaced a different entry
    last_op,                 \* ghost: the registry operation that ran last
    input_table_name,        \* the name handed to the latest replacement scan
    replacement,             \* what the latest replacement scan returned
    detached                 \* what the latest d1_detach returned

regVars == <<g_d1_attached_databases, g_d1_registry_mutex, pc, attaching,
             last_writer, overwrote, last_op, input_table_name, replacement,
             detached>>

VARIABLES
    \* --- mapping of one declared column type (d1_http.cpp) ---
    sqlite_type,     \* the declared type, a string of characters
    logical_type,    \* the host type SQLiteTypeToDuckDB returned
    type_mapped      \* SQLiteTypeToDuckDB has been applied to sqlite_type

typeVars == <<sqlite_type, logical_type, type_mapped>>

VARIABLES
    \* --- parsing of one query response (d1_http.cpp) and cell emission ---
    json_rows,       \* ghost: the row objects the remote serialised
    response_body,   \* the response body, a string of characters
    parsed_rows,     \* D1QueryResult::results
    column_order,    \* D1QueryResult::column_order
    parse_done,      \* the response has been parsed
    column_type,     \* the host type of the scanned columns
    cells,           \* the cells the scan emitted, per row and column
    cells_done       \* the parsed rows have been emitted

parseVars == <<json_rows, response_body, parsed_rows, column_order, parse_done,
               column_type, cells, cells_done>>

VARIABLES
    \* --- binding of d1_query, d1_tables, d1_databases (d1_functions.cpp) ---
    bind_function,   \* the table function being bound
    bind_input,      \* its named parameters, the environment, the secret store
    bind_error,      \* the exception the bind raised, "" when none
    http_requests,   \* HTTP requests issued by the bind
    bind_done        \* the bind has run

bindVars == <<bind_function, bind_input, bind_error, http_requests, bind_done>>

VARIABLES
    \* --- remote calls of the registry's users (d1_attach.cpp) ---
    in_flight,       \* per thread: the remote call it waits for, "" when none
    attach_raised,   \* ghost: per thread, the error its latest d1_attach raised
    views_left       \* per thread in d1_attach_views: the tables still to do

callVars == <<in_flight, attach_raised, views_left>>

vars == <<planVars, scanVars, filterVars, exprVars, txnVars, mgrVars, regVars,
          typeVars, parseVars, bindVars, callVars>>

-----------------------------------------------------------------------------
(* Bounds *)

MaxDepth == 3        \* operators stacked over a leaf in a generated plan
MaxLimit == 2        \* largest LIMIT / TOP_N row count in a generated plan
MaxRuns == 2         \* rewriter runs on one plan
ScanDepth == 2       \* operators stacked over the scan in an executed plan
MaxRows == 3         \* rows in the remote table
MaxVal == 2          \* integer constants and column values are 0..MaxVal
MaxPulls == 4        \* D1ScanFunction calls on one binding
STANDARD_VECTOR_SIZE == 2   \* rows per DataChunk (scaled down from 2048)
MaxFilters == 2      \* filters handed to one pushdown invocation
MaxChildren == 2     \* children of a generated conjunction
MaxInvocations == 2  \* pushdown invocations on one binding
MaxBuffer == 3       \* statements buffered in one transaction
MaxBatches == 2      \* batch calls made by one transaction
MaxFragments == 2    \* fragments a generated declared type is made of
MaxJsonRows == 2     \* row objects in a generated response

-----------------------------------------------------------------------------
(* Logical plan                                                            *)

BindIds == {1, 2}

\* One logical operator.  limit_type/limit/offset are meaningful on LIMIT and
\* TOP_N nodes, filter on FILTER nodes, fn/bind on GET nodes.
Node(type, limit_type, limit, offset, filter, fn, bind, children) ==
    [type |-> type, limit_type |-> limit_type, limit |-> limit, offset |-> offset,
     filter |-> filter, fn |-> fn, bind |-> bind, children |-> children]

LogicalGet(fn, bind) == Node("LOGICAL_GET", "NONE", 0, 0, 0, fn, bind, <<>>)
LogicalLimit(lt, n, k) == Node("LOGICAL_LIMIT", lt, n, k, 0, "", 0, <<>>)
LogicalTopN(n, k) == Node("LOGICAL_TOP_N", "NONE", n, k, 0, "", 0, <<>>)
LogicalProjection == Node("LOGICAL_PROJECTION", "NONE", 0, 0, 0, "", 0, <<>>)
LogicalFilter(p) == Node("LOGICAL_FILTER", "NONE", 0, 0, p, "", 0, <<>>)
LogicalUnion(l, r) == Node("LOGICAL_UNION", "NONE", 0, 0, 0, "", 0, <<l, r>>)

WithChild(op, c) == [op EXCEPT !.children = <<c>>]

\* Unary operators a generated plan stacks over a leaf.
Wrappers(offsets, preds) ==
    {LogicalLimit("CONSTANT_VALUE", n, k) : n \in 0..MaxLimit, k \in offsets}
    \cup {LogicalLimit("EXPRESSION_VALUE", n, 0) : n \in {1}}
    \cup {LogicalTopN(n, 0) : n \in 1..MaxLimit}
    \cup {LogicalProjection}
    \cup {LogicalFilter(p) : p \in preds}

RECURSIVE Chains(_, _, _)
Chains(d, leaves, wrappers) ==
    IF d = 0 THEN leaves
    ELSE LET sub == Chains(d - 1, leaves, wrappers)
         IN  sub \cup {WithChild(w, c) : w \in wrappers, c \in sub}

Leaves(b) == {LogicalGet("d1_scan", b), LogicalGet("seq_scan", 0)}

\* Plans the rewriter is run on: unary chains over one leaf, and a two-input
\* node over two short chains with distinct scan bindings.
Plans ==
    Chains(MaxDepth, Leaves(1), Wrappers({0}, {2}))
    \cup {LogicalUnion(l, r) :
            l \in Chains(1, {LogicalGet("d1_scan", 1)}, Wrappers({0}, {2})),
            r \in Chains(1, {LogicalGet("d1_scan", 2)}, Wrappers({0}, {2}))}

-----------------------------------------------------------------------------
(* LIMIT pushdown optimizer                                                *)

\* "Skip projection, filter to find GET"
RECURSIVE SkipToGet(_)
SkipToGet(child) ==
    IF child.type \in {"LOGICAL_PROJECTION", "LOGICAL_FILTER"}
    THEN SkipToGet(child.children[1])
    ELSE child

IsD1Scan(child) == child.type = "LOGICAL_GET" /\ child.fn = "d1_scan"

RECURSIVE OptimizeD1ScanLimitPushdown(_, _)
RECURSIVE RecurseChildren(_, _, _)

\* "Recurse into children": the loop over op->children, from child i on.
RecurseChildren(op, limits, i) ==
    IF i > Len(op.children) THEN [op |-> op, limits |-> limits]
    ELSE LET r == OptimizeD1ScanLimitPushdown(op.children[i], limits)
         IN  RecurseChildren([op EXCEPT !.children[i] = r.op], r.limits, i + 1)

\* OptimizeD1ScanLimitPushdown(op->children[0]); return;
RecurseFirstChild(op, limits) ==
    LET r == OptimizeD1ScanLimitPushdown(op.children[1], limits)
    IN  [op |-> [op EXCEPT !.children[1] = r.op], limits |-> r.limits]

IsConstantLimit_Any(op) == op.type = "LOGICAL_LIMIT"

\* "Only push down constant limits"
IsConstantLimit(op) == op.limit_type = "CONSTANT_VALUE"

PushTopN_Elided(op, limits, child) ==
    [op |-> op.children[1], limits |-> [limits EXCEPT ![child.bind] = op.limit]]

\* TOP_N over a d1_scan: bind_data.limit = top_n.limit; the TOP_N is kept
\* and control falls through to the loop over the children.
PushTopN(op, limits, child) ==
    RecurseChildren(op, [limits EXCEPT ![child.bind] = op.limit], 1)

\* Constant LIMIT over a d1_scan: bind_data.limit = the constant;
\* op = std::move(op->children[0]); return.
PushLimit(op, limits, child) ==
    [op |-> op.children[1], limits |-> [limits EXCEPT ![child.bind] = op.limit]]

\* The rewriter: returns the rewritten operator and the bindings' limit fields.
OptimizeD1ScanLimitPushdown(op, limits) ==
    IF op.type = "LOGICAL_TOP_N" THEN
        LET child == SkipToGet(op.children[1]) IN
        IF ~IsD1Scan(child) THEN RecurseFirstChild(op, limits)
        ELSE PushTopN(op, limits, child)
    ELSE IF op.type = "LOGICAL_LIMIT" THEN
        LET child == SkipToGet(op.children[1]) IN
        IF ~IsD1Scan(child) THEN RecurseFirstChild(op, limits)
        ELSE IF ~IsConstantLimit(op) THEN RecurseFirstChild(op, limits)
        ELSE PushLimit(op, limits, child)
    ELSE RecurseChildren(op, limits, 1)

\* The calls of one run of the rewriter: the positions (paths of child
\* indices from the root) of the operators it is called on, in call order.
RECURSIVE Visits(_, _)
RECURSIVE VisitChildren(_, _, _)

\* "Recurse into children", from child i on.
VisitChildren(op, path, i) ==
    IF i > Len(op.children) THEN <<>>
    ELSE Visits(op.children[i], Append(path, i)) \o VisitChildren(op, path, i + 1)

Visits(op, path) ==
    <<path>> \o
    (IF op.type = "LOGICAL_TOP_N" THEN
        IF ~IsD1Scan(SkipToGet(op.children[1]))
        THEN Visits(op.children[1], Append(path, 1))
        ELSE VisitChildren(op, path, 1)
     ELSE IF op.type = "LOGICAL_LIMIT" THEN
        IF ~IsD1Scan(SkipToGet(op.children[1])) \/ ~IsConstantLimit(op)
        THEN Visits(op.children[1], Append(path, 1))
        ELSE <<>>
     ELSE VisitChildren(op, path, 1))

\* Positions in a plan (paths of child indices from the root) and the
\* operator at a position.
RECURSIVE Paths(_)
Paths(op) ==
    {<<>>} \cup UNION {{<<i>> \o p : p \in Paths(op.children[i])} :
                        i \in 1..Len(op.children)}

RECURSIVE At(_, _)
At(op, p) == IF p = <<>> THEN op ELSE At(op.children[Head(p)], Tail(p))

-----------------------------------------------------------------------------
(* Predicate translation                                                   *)

\* A host Value: its logical type, null flag, and payload (v for INTEGER and
\* BOOLEAN, 1 = true; s, the characters, for VARCHAR).
Value(type, is_null, v, s) == [type |-> type, is_null |-> is_null, v |-> v, s |-> s]
IntegerValue(n) == Value("INTEGER", FALSE, n, <<>>)
BooleanValue(b) == Value("BOOLEAN", FALSE, IF b THEN 1 ELSE 0, <<>>)
VarcharValue(chars) == Value("VARCHAR", FALSE, 0, chars)
NullValue(type) == Value(type, TRUE, 0, <<>>)

\* A bound expression: class, type, column name, constant, children
\* (left and right operand for a comparison).
Expression(class, type, name, value, children) ==
    [class |-> class, type |-> type, name |-> name, value |-> value,
     children |-> children]
ColumnRef(name) == Expression("BOUND_COLUMN_REF", "", name, NullValue("INTEGER"), <<>>)
Constant(value) == Expression("BOUND_CONSTANT", "", "", value, <<>>)
Comparison(type, left, right) ==
    Expression("BOUND_COMPARISON", type, "", NullValue("INTEGER"), <<left, right>>)
Conjunction(type, children) ==
    Expression("BOUND_CONJUNCTION", type, "", NullValue("INTEGER"), children)
FunctionCall == Expression("BOUND_FUNCTION", "", "", NullValue("INTEGER"), <<>>)

\* EscapeSQLString: quote, doubling every single quote.
RECURSIVE EscapeChars(_)
EscapeChars(chars) ==
    IF chars = <<>> THEN ""
    ELSE (IF Head(chars) = "'" THEN "''" ELSE Head(chars)) \o EscapeChars(Tail(chars))

EscapeSQLString(chars) == "'" \o EscapeChars(chars) \o "'"

ComparisonTypeToSQL(type) ==
    CASE type = "COMPARE_EQUAL" -> "="
      [] type = "COMPARE_NOTEQUAL" -> "!="
      [] type = "COMPARE_LESSTHAN" -> "<"
      [] type = "COMPARE_GREATERTHAN" -> ">"
      [] type = "COMPARE_LESSTHANOREQUALTO" -> "<="
      [] type = "COMPARE_GREATERTHANOREQUALTO" -> ">="
      [] OTHER -> ""

ValueToSQL(value) ==
    IF value.is_null THEN "NULL"
    ELSE CASE value.type = "VARCHAR" -> EscapeSQLString(value.s)
           [] value.type = "BOOLEAN" -> IF value.v = 1 THEN "1" ELSE "0"
           [] OTHER -> ToString(value.v)

Reversed_None(type) == type

\* "Reverse the comparison" for constant-op-column
Reversed(type) ==
    CASE type = "COMPARE_LESSTHAN" -> "COMPARE_GREATERTHAN"
      [] type = "COMPARE_GREATERTHAN" -> "COMPARE_LESSTHAN"
      [] type = "COMPARE_LESSTHANOREQUALTO" -> "COMPARE_GREATERTHANOREQUALTO"
      [] type = "COMPARE_GREATERTHANOREQUALTO" -> "COMPARE_LESSTHANOREQUALTO"
      [] OTHER -> type

\* ExpressionToSQL: "col op literal" for a column-vs-constant comparison in
\* either operand order, "" for anything else.
ExpressionToSQL(e) ==
    IF e.class # "BOUND_COMPARISON" THEN ""
    ELSE LET left == e.children[1]
             right == e.children[2]
         IN  IF /\ left.class = "BOUND_COLUMN_REF"
                /\ right.class = "BOUND_CONSTANT"
                /\ ComparisonTypeToSQL(e.type) # ""
             THEN left.name \o " " \o ComparisonTypeToSQL(e.type) \o " "
                  \o ValueToSQL(right.value)
             ELSE IF /\ right.class = "BOUND_COLUMN_REF"
                     /\ left.class = "BOUND_CONSTANT"
                     /\ ComparisonTypeToSQL(Reversed(e.type)) # ""
             THEN right.name \o " " \o ComparisonTypeToSQL(Reversed(e.type)) \o " "
                  \o ValueToSQL(left.value)
             ELSE ""

RECURSIVE JoinAnd(_)
JoinAnd(conds) ==
    IF conds = <<>> THEN ""
    ELSE IF Len(conds) = 1 THEN conds[1]
    ELSE conds[1] \o " AND " \o JoinAnd(Tail(conds))

\* The children's SQL texts up to the first child that does not translate.
RECURSIVE SubConditions(_)
SubConditions(children) ==
    IF children = <<>> \/ ExpressionToSQL(Head(children)) = "" THEN <<>>
    ELSE <<ExpressionToSQL(Head(children))>> \o SubConditions(Tail(children))

RECURSIVE TranslatedChildren(_)
TranslatedChildren(children) ==
    IF children = <<>> THEN <<>>
    ELSE (IF ExpressionToSQL(Head(children)) = "" THEN <<>>
          ELSE <<ExpressionToSQL(Head(children))>>)
         \o TranslatedChildren(Tail(children))

ConjunctionToSQL_Partial(filter) ==
    IF filter.class = "BOUND_CONJUNCTION" /\ filter.type = "CONJUNCTION_AND"
       /\ TranslatedChildren(filter.children) # <<>>
    THEN "(" \o JoinAnd(TranslatedChildren(filter.children)) \o ")"
    ELSE ""

\* "Handle AND conjunctions": the parenthesised AND-join of the children's
\* texts when all of them translate, "" (not pushed) otherwise.
ConjunctionToSQL(filter) ==
    IF filter.class = "BOUND_CONJUNCTION" /\ filter.type = "CONJUNCTION_AND"
    THEN LET sub_conditions == SubConditions(filter.children)
             all_converted == Len(sub_conditions) = Len(filter.children)
         IN  IF all_converted /\ sub_conditions # <<>>
             THEN "(" \o JoinAnd(sub_conditions) \o ")"
             ELSE ""
    ELSE ""

\* The text one filter contributes to sql_conditions ("" = left to the host).
FilterToSQL(filter) ==
    IF ExpressionToSQL(filter) # "" THEN ExpressionToSQL(filter)
    ELSE ConjunctionToSQL(filter)

\* The loop over the filters: the indices pushed, in order.
FiltersToRemove(fs) ==
    LET Pushed(i) == FilterToSQL(fs[i]) # ""
        RECURSIVE From(_)
        From(i) == IF i > Len(fs) THEN <<>>
                   ELSE (IF Pushed(i) THEN <<i>> ELSE <<>>) \o From(i + 1)
    IN  From(1)

SqlConditions(fs) ==
    [k \in 1..Len(FiltersToRemove(fs)) |-> FilterToSQL(fs[FiltersToRemove(fs)[k]])]

\* "Remove filters we pushed down"
Residual(fs, to_remove) ==
    LET Kept(i) == \A k \in 1..Len(to_remove) : to_remove[k] # i
        RECURSIVE From(_)
        From(i) == IF i > Len(fs) THEN <<>>
                   ELSE (IF Kept(i) THEN <<fs[i]>> ELSE <<>>) \o From(i + 1)
    IN  From(1)

\* "Build WHERE clause": conditions appended to the accumulator, " AND "
\* before every condition but the first of this invocation.
BuildWhere(where, conds) == where \o JoinAnd(conds)

-----------------------------------------------------------------------------
(* d1_scan table function                                                  *)

Min(a, b) == IF a < b THEN a ELSE b

\* A row of the remote table, for short its value in the filtered column.
Rows == {1, 2}
RECURSIVE SeqsUpTo(_, _)
SeqsUpTo(S, n) ==
    IF n = 0 THEN {<<>>}
    ELSE LET shorter == SeqsUpTo(S, n - 1)
         IN  shorter \cup {Append(q, x) : q \in {r \in shorter : Len(r) = n - 1}, x \in S}

\* D1QueryResult() : success(false), no rows, no error
EmptyResult == [success |-> FALSE, error |-> "", results |-> <<>>]

\* The statement D1ScanFunction builds on its first call:
\* "SELECT * FROM t" [" WHERE " where_clause] [" LIMIT " limit].
ScanSQL(table_name, where, limit) ==
    [text |-> "SELECT * FROM " \o table_name
              \o (IF where # "" THEN " WHERE " \o where ELSE "")
              \o (IF limit > 0 THEN " LIMIT " \o ToString(limit) ELSE ""),
     has_where |-> where # "", where |-> where,
     has_limit |-> limit > 0, limit |-> limit]

\* What the remote answers to a statement: the table's rows, cut to the
\* LIMIT clause when the statement carries one.
RemoteRows(sql, table) ==
    IF sql.has_limit THEN SubSeq(table, 1, Min(sql.limit, Len(table))) ELSE table

\* The response envelope of the /query endpoint.
Response(outcome, sql, table) ==
    CASE outcome = "ok" ->
            [success |-> TRUE, error |-> "", results |-> RemoteRows(sql, table)]
      [] outcome = "rejected" ->
            [success |-> FALSE, error |-> "SQLITE_ERROR", results |-> <<>>]
      [] outcome = "rejected_no_message" ->
            [success |-> FALSE, error |-> "", results |-> <<>>]
      [] outcome = "rejected_with_rows" ->
            [success |-> FALSE, error |-> "", results |-> RemoteRows(sql, table)]

\* Outcomes of one HTTPPost: a 2xx response (success; failure with a message;
\* failure with an empty errors array, without or with a results array), or a
\* transport / non-2xx failure, which HTTPPost raises as an IOException.
Outcomes == {"ok", "rejected", "rejected_no_message", "rejected_with_rows", "throw"}

\* ParseD1Response: success flag, first error message, and the rows of the
\* results array unless the response failed with a message.
ParseD1Response(response) ==
    IF ~response.success /\ response.error # ""
    THEN [success |-> FALSE, error |-> response.error, results |-> <<>>]
    ELSE [success |-> response.success, error |-> response.error,
          results |-> response.results]

\* The copy loop of D1ScanFunction: up to STANDARD_VECTOR_SIZE rows from the
\* cursor on.
Chunk_Uncapped(res, cur) == SubSeq(res.results, cur + 1, Len(res.results))

Chunk(res, cur) ==
    SubSeq(res.results, cur + 1, Min(cur + STANDARD_VECTOR_SIZE, Len(res.results)))

EmitFrom(res) ==
    /\ output' = Chunk(res, current_row)
    /\ current_row' = current_row + Len(Chunk(res, current_row))
    /\ emitted' = emitted \o Chunk(res, current_row)
    /\ raised' = ""
    /\ UNCHANGED failed

Raise(msg) ==
    /\ raised' = msg
    /\ failed' = TRUE
    /\ output' = <<>>
    /\ UNCHANGED <<current_row, emitted>>

\* D1ScanFunction: one pull of the host on the scan.
D1ScanFunction(outcome) ==
    /\ runs = 1
    /\ pulls < MaxPulls
    /\ pulls' = pulls + 1
    /\ pre_row' = current_row
    /\ IF ~executed
       THEN LET sql == ScanSQL("t", where_clause, bind_limit[1]) IN
            /\ sql_log' = Append(sql_log, sql)
            /\ IF outcome = "throw"
               THEN \* D1ExecuteQuery raised: the assignments to result and
                    \* executed that follow the call are not reached
                    /\ UNCHANGED <<executed, result>>
                    /\ Raise("HTTP request failed")
               ELSE LET res == ParseD1Response(Response(outcome, sql, remote)) IN
                    /\ result' = res
                    /\ executed' = TRUE
                    /\ IF ~res.success
                       THEN Raise("D1 query failed: " \o res.error)
                       ELSE EmitFrom(res)
       ELSE /\ outcome = "ok"    \* no remote call is made: nothing to choose
            /\ UNCHANGED <<sql_log, executed, result>>
            /\ EmitFrom(result)
    /\ UNCHANGED <<remote, where_clause>>
    /\ UNCHANGED <<planVars, filterVars, exprVars, txnVars, mgrVars, regVars, typeVars, parseVars, bindVars, callVars>>

\* The host's evaluation of a plan over the rows the scan returns.
RECURSIVE Insert(_, _)
Insert(x, sorted) ==
    IF sorted = <<>> THEN <<x>>
    ELSE IF x < Head(sorted) THEN <<x>> \o sorted
    ELSE <<Head(sorted)>> \o Insert(x, Tail(sorted))

RECURSIVE Sorted(_)
Sorted(q) == IF q = <<>> THEN <<>> ELSE Insert(q[Len(q)], Sorted(SubSeq(q, 1, Len(q) - 1)))

Window(q, offset, n) == SubSeq(q, offset + 1, Min(offset + n, Len(q)))

RECURSIVE HostEval(_, _)
HostEval(op, scanRows) ==
    CASE op.type = "LOGICAL_GET" -> IF op.fn = "d1_scan" THEN scanRows ELSE <<>>
      [] op.type = "LOGICAL_PROJECTION" -> HostEval(op.children[1], scanRows)
      [] op.type = "LOGICAL_FILTER" ->
            LET Keep(x) == x >= op.filter
            IN  SelectSeq(HostEval(op.children[1], scanRows), Keep)
      [] op.type = "LOGICAL_LIMIT" ->
            Window(HostEval(op.children[1], scanRows), op.offset, op.limit)
      [] op.type = "LOGICAL_TOP_N" ->
            Window(Sorted(HostEval(op.children[1], scanRows)), op.offset, op.limit)
      [] op.type = "LOGICAL_UNION" ->
            HostEval(op.children[1], scanRows) \o HostEval(op.children[2], scanRows)

-----------------------------------------------------------------------------
(* Write-buffering transaction                                             *)

Statements == {"INSERT", "UPDATE"}

NoBatchResult == [success |-> TRUE, error |-> "", results |-> <<>>, raised |-> FALSE]

\* What D1ExecuteBatch can return for a batch of n statements: a transport
\* failure (raised), a batch-level failure, or batch success with one result
\* per statement, in statement order, each succeeded or failed with a message.
D1ExecuteBatch(n) ==
    {[success |-> FALSE, error |-> "", results |-> <<>>, raised |-> TRUE],
     [success |-> FALSE, error |-> "batch rejected", results |-> <<>>, raised |-> FALSE]}
    \cup {[success |-> TRUE, error |-> "", raised |-> FALSE,
           results |-> [i \in 1..n |->
                          [success |-> ok[i],
                           error |-> IF ok[i] THEN ""
                                     ELSE "constraint failed in " \o ToString(i)]]] :
            ok \in [1..n -> BOOLEAN]}

\* "Check individual statement results": the index of the first result that
\* reports failure, 0 when none does.
FirstFailed(results) ==
    IF \E i \in 1..Len(results) : ~results[i].success
    THEN CHOOSE i \in 1..Len(results) :
            /\ ~results[i].success
            /\ \A j \in 1..(i - 1) : results[j].success
    ELSE 0

\* The exception Commit raises for a batch result ("" = none).
CommitError(res) ==
    IF res.raised THEN "HTTP request failed"
    ELSE IF ~res.success THEN "D1 batch commit failed: " \o res.error
    ELSE IF FirstFailed(res.results) # 0
    THEN "D1 statement " \o ToString(FirstFailed(res.results) - 1) \o " failed: "
         \o res.results[FirstFailed(res.results)].error
    ELSE ""

BufferAfterCommit_Cleared(buffer, err) == <<>>

\* buffered_statements.clear() is reached only when nothing was raised.
BufferAfterCommit(buffer, err) == IF err = "" THEN <<>> ELSE buffer

Called(name) ==
    /\ last_call' = name
    /\ pre_buffer' = buffered_statements
    /\ pre_started' = is_started
    /\ pre_calls' = batch_calls

\* No statement goes to the remote in this call.
NoBatchSent ==
    /\ last_batch' = <<>>
    /\ batch_result' = NoBatchResult
    /\ commit_error' = ""
    /\ UNCHANGED <<batch_calls, resent>>

BatchArgument_First(buffer) == <<Head(buffer)>>

\* D1ExecuteBatch(config, buffered_statements): the whole buffer, in order.
BatchArgument(buffer) == buffer

BufferAfterRollback_Kept(buffer) == buffer

\* buffered_statements.clear() in Rollback
BufferAfterRollback(buffer) == <<>>

\* D1Transaction::Start
Start ==
    /\ Called("Start")
    /\ is_started' = TRUE
    /\ NoBatchSent
    /\ last_read' = ""
    /\ UNCHANGED <<buffered_statements, sent_upto>>
    /\ UNCHANGED <<planVars, scanVars, filterVars, exprVars, regVars, typeVars, parseVars, bindVars, callVars>>

StartedAfterBuffer_Kept(started) == started

\* if (!is_started) Start(); in BufferStatement
StartedAfterBuffer(started) == TRUE

\* D1Transaction::BufferStatement
BufferStatement(stmt) ==
    /\ Len(buffered_statements) < MaxBuffer
    /\ Called("BufferStatement")
    /\ is_started' = StartedAfterBuffer(is_started)
    /\ buffered_statements' = Append(buffered_statements, stmt)
    /\ NoBatchSent
    /\ last_read' = ""
    /\ UNCHANGED sent_upto
    /\ UNCHANGED <<planVars, scanVars, filterVars, exprVars, regVars, typeVars, parseVars, bindVars, callVars>>

\* D1Transaction::Commit, res being what D1ExecuteBatch returns when called.
Commit(res) ==
    /\ Called("Commit")
    /\ IF ~is_started
       THEN /\ res = NoBatchResult
            /\ NoBatchSent
            /\ UNCHANGED <<is_started, buffered_statements, sent_upto>>
       ELSE IF buffered_statements = <<>>
       THEN /\ res = NoBatchResult
            /\ NoBatchSent
            /\ is_started' = FALSE
            /\ UNCHANGED <<buffered_statements, sent_upto>>
       ELSE /\ batch_calls < MaxBatches
            /\ res \in D1ExecuteBatch(Len(BatchArgument(buffered_statements)))
            /\ batch_calls' = batch_calls + 1
            /\ last_batch' = BatchArgument(buffered_statements)
            /\ resent' = (resent \/ sent_upto > 0)
            /\ batch_result' = res
            /\ commit_error' = CommitError(res)
            /\ buffered_statements' = BufferAfterCommit(buffered_statements, CommitError(res))
            /\ sent_upto' = IF CommitError(res) = "" THEN 0
                            ELSE Len(BatchArgument(buffered_statements))
            /\ is_started' = (CommitError(res) # "")
    /\ last_read' = ""
    /\ UNCHANGED <<planVars, scanVars, filterVars, exprVars, regVars, typeVars, parseVars, bindVars, callVars>>

\* D1Transaction::Rollback
Rollback ==
    /\ Called("Rollback")
    /\ IF ~is_started
       THEN UNCHANGED <<is_started, buffered_statements, sent_upto>>
       ELSE /\ buffered_statements' = BufferAfterRollback(buffered_statements)
            /\ sent_upto' = Min(sent_upto, Len(BufferAfterRollback(buffered_statements)))
            /\ is_started' = FALSE
    /\ NoBatchSent
    /\ last_read' = ""
    /\ UNCHANGED <<planVars, scanVars, filterVars, exprVars, regVars, typeVars, parseVars, bindVars, callVars>>

Reads == {"SELECT"}

ExecuteRead_Flushing(sql) ==
    /\ Called("ExecuteRead")
    /\ last_read' = sql
    /\ batch_calls' = batch_calls + (IF buffered_statements = <<>> THEN 0 ELSE 1)
    /\ last_batch' = buffered_statements
    /\ batch_result' = NoBatchResult
    /\ commit_error' = ""
    /\ buffered_statements' = <<>>
    /\ sent_upto' = 0
    /\ UNCHANGED <<is_started, resent>>
    /\ UNCHANGED <<planVars, scanVars, filterVars, exprVars, regVars, typeVars, parseVars, bindVars, callVars>>

\* D1Transaction::ExecuteRead: the statement goes to the remote at once, by
\* D1ExecuteQuery; nothing else is sent.
ExecuteRead(sql) ==
    /\ Called("ExecuteRead")
    /\ last_read' = sql
    /\ NoBatchSent
    /\ UNCHANGED <<is_started, buffered_statements, sent_upto>>
    /\ UNCHANGED <<planVars, scanVars, filterVars, exprVars, regVars, typeVars, parseVars, bindVars, callVars>>

\* D1Transaction::D1Transaction : is_started(false), empty buffer
TxnIdle ==
    /\ is_started = FALSE
    /\ buffered_statements = <<>>
    /\ batch_result = NoBatchResult
    /\ commit_error = ""
    /\ last_call = ""
    /\ pre_buffer = <<>>
    /\ pre_started = FALSE
    /\ batch_calls = 0
    /\ last_batch = <<>>
    /\ pre_calls = 0
    /\ sent_upto = 0
    /\ resent = FALSE
    /\ last_read = ""

-----------------------------------------------------------------------------
(* Transaction manager                                                     *)

\* The one transaction object the model follows, as a key of the map.
Txn == 1

\* D1TransactionManager::StartTransaction: a new D1Transaction is made,
\* started and entered in the map.
StartTransaction ==
    /\ Txn \notin transactions
    /\ Start
    /\ transactions' = transactions \cup {Txn}
    /\ returned' = ""

\* A write statement of the host inside the active transaction.
ManagedWrite(stmt) ==
    /\ Txn \in transactions
    /\ BufferStatement(stmt)
    /\ UNCHANGED mgrVars

\* D1TransactionManager::CommitTransaction: an exception of Commit is caught
\* and returned as ErrorData, before the map entry is erased.
CommitTransaction(res) ==
    /\ Txn \in transactions
    /\ Commit(res)
    /\ returned' = commit_error'
    /\ transactions' = IF commit_error' # "" THEN transactions
                       ELSE transactions \ {Txn}

\* D1TransactionManager::RollbackTransaction
RollbackTransaction ==
    /\ Txn \in transactions
    /\ Rollback
    /\ returned' = ""
    /\ transactions' = transactions \ {Txn}

\* D1TransactionManager::D1TransactionManager : an empty map
MgrIdle ==
    /\ transactions = {}
    /\ returned = ""

-----------------------------------------------------------------------------
(* Registry of attached databases                                          *)

\* Names are strings of characters.
AliasA == <<"a">>
AliasB == <<"b">>
TableT == <<"t">>
TableBT == <<"b", ".", "t">>
UuidOfA == <<"#", "a">>      \* stands for the 36-character UUID of database a

\* struct D1AttachedDatabase, with the alias it is keyed by.
Entry(alias, secret_name, database_name, database_id, tables) ==
    [alias |-> alias, secret_name |-> secret_name, database_name |-> database_name,
     database_id |-> database_id, tables |-> tables]

NoEntry == Entry(<<>>, "", <<>>, <<>>, {})

\* The value operator[] inserts for a key that is not in the map.
DefaultEntry(alias) == Entry(alias, "", <<>>, <<>>, {})

Threads == {1, 2}
RegistryAliases == {AliasA, AliasB}
NoAlias == <<>>                      \* d1_attach called with two arguments
DbInputs == {AliasA, AliasB, UuidOfA}
Secrets == {"s1", "s2"}
\* What D1GetTables can return: the remote's tables at the time of the call.
TableLists == {{TableT}, {TableT, TableBT}}

is_uuid(db_input) == Head(db_input) = "#"

\* D1GetDatabaseIdByName / D1ListDatabases: the remote's databases.
DatabaseId(name) == <<"#">> \o name
DatabaseName(uuid) == IF uuid = UuidOfA THEN AliasA ELSE <<>>

\* The bind data and local D1AttachedDatabase D1AttachBind builds before it
\* takes the mutex.
Attached(db_input, secret_name, alias_arg, tables) ==
    LET alias0 == IF alias_arg # NoAlias THEN alias_arg ELSE db_input
        database_id == IF is_uuid(db_input) THEN db_input ELSE DatabaseId(db_input)
        database_name ==
            IF is_uuid(db_input)
            THEN (IF DatabaseName(db_input) # <<>> THEN DatabaseName(db_input)
                  ELSE db_input)
            ELSE db_input
        alias == IF alias0 = database_id /\ database_name # <<>>
                 THEN database_name ELSE alias0
    IN  Entry(alias, secret_name, database_name, database_id, tables)

\* nullptr: the name is left to the host's own catalog.
NoReplacement ==
    [function |-> "", table_name |-> <<>>, secret_name |-> "", database_id |-> <<>>]

RegistryOp(name) ==
    /\ last_op' = name
    /\ input_table_name' = <<>>
    /\ replacement' = NoReplacement
    /\ detached' = FALSE

\* D1AttachBind up to the registration block: the remote calls are made and
\* the entry is built in locals.  (A call that raises leaves all as it was.)
AttachBind(p, db_input, secret_name, alias_arg, tables) ==
    /\ pc[p] = "idle"
    /\ pc' = [pc EXCEPT ![p] = "bound"]
    /\ attaching' = [attaching EXCEPT ![p] = Attached(db_input, secret_name, alias_arg, tables)]
    /\ RegistryOp("attach")
    /\ UNCHANGED <<g_d1_attached_databases, g_d1_registry_mutex, last_writer, overwrote>>
    /\ UNCHANGED <<planVars, scanVars, filterVars, exprVars, txnVars, mgrVars, typeVars, parseVars, bindVars, callVars>>

AttachLock_NoMutex(p) ==
    /\ pc[p] = "bound"
    /\ pc' = [pc EXCEPT ![p] = "locked"]
    /\ RegistryOp("attach")
    /\ UNCHANGED <<g_d1_attached_databases, g_d1_registry_mutex, attaching,
                   last_writer, overwrote>>
    /\ UNCHANGED <<planVars, scanVars, filterVars, exprVars, txnVars, mgrVars, typeVars, parseVars, bindVars, callVars>>

\* std::lock_guard<std::mutex> lock(g_d1_registry_mutex)
AttachLock(p) ==
    /\ pc[p] = "bound"
    /\ g_d1_registry_mutex = 0
    /\ g_d1_registry_mutex' = p
    /\ pc' = [pc EXCEPT ![p] = "locked"]
    /\ RegistryOp("attach")
    /\ UNCHANGED <<g_d1_attached_databases, attaching, last_writer, overwrote>>
    /\ UNCHANGED <<planVars, scanVars, filterVars, exprVars, txnVars, mgrVars, typeVars, parseVars, bindVars, callVars>>

HasAlias(registry, alias) == \E e \in registry : e.alias = alias

\* g_d1_attached_databases[bind_data->alias]: the entry under the key is
\* found, or a default one inserted.
AttachIndex(p) ==
    /\ pc[p] = "locked"
    /\ pc' = [pc EXCEPT ![p] = "indexed"]
    /\ g_d1_attached_databases' =
          IF HasAlias(g_d1_attached_databases, attaching[p].alias)
          THEN g_d1_attached_databases
          ELSE g_d1_attached_databases \cup {DefaultEntry(attaching[p].alias)}
    /\ overwrote' = (\/ overwrote
                     \/ \E e \in g_d1_attached_databases :
                            e.alias = attaching[p].alias /\ e # attaching[p])
    /\ RegistryOp("attach")
    /\ UNCHANGED <<g_d1_registry_mutex, attaching, last_writer>>
    /\ UNCHANGED <<planVars, scanVars, filterVars, exprVars, txnVars, mgrVars, typeVars, parseVars, bindVars, callVars>>

\* ... = std::move(attached): the members are moved one after another; first
\* secret_name, database_name, database_id,
AttachAssignNames(p) ==
    /\ pc[p] = "indexed"
    /\ pc' = [pc EXCEPT ![p] = "named"]
    /\ g_d1_attached_databases' =
          {IF e.alias = attaching[p].alias
           THEN [e EXCEPT !.secret_name = attaching[p].secret_name,
                          !.database_name = attaching[p].database_name,
                          !.database_id = attaching[p].database_id]
           ELSE e : e \in g_d1_attached_databases}
    /\ RegistryOp("attach")
    /\ UNCHANGED <<g_d1_registry_mutex, attaching, last_writer, overwrote>>
    /\ UNCHANGED <<planVars, scanVars, filterVars, exprVars, txnVars, mgrVars, typeVars, parseVars, bindVars, callVars>>

\* then config and tables; the mutex is released at the end of the block.
AttachAssignTables(p) ==
    /\ pc[p] = "named"
    /\ pc' = [pc EXCEPT ![p] = "idle"]
    /\ g_d1_attached_databases' =
          {IF e.alias = attaching[p].alias
           THEN [e EXCEPT !.tables = attaching[p].tables]
           ELSE e : e \in g_d1_attached_databases}
    /\ g_d1_registry_mutex' = IF g_d1_registry_mutex = p THEN 0 ELSE g_d1_registry_mutex
    /\ last_writer' = [last_writer EXCEPT ![attaching[p].alias] = attaching[p]]
    /\ attaching' = [attaching EXCEPT ![p] = NoEntry]
    /\ RegistryOp("attach")
    /\ UNCHANGED overwrote
    /\ UNCHANGED <<planVars, scanVars, filterVars, exprVars, txnVars, mgrVars, typeVars, parseVars, bindVars, callVars>>

\* D1DetachScalarFunction on one alias: find and erase under the mutex.
D1DetachScalarFunction(alias) ==
    /\ g_d1_registry_mutex = 0
    /\ last_op' = "detach"
    /\ input_table_name' = <<>>
    /\ replacement' = NoReplacement
    /\ detached' = HasAlias(g_d1_attached_databases, alias)
    /\ g_d1_attached_databases' = {e \in g_d1_attached_databases : e.alias # alias}
    /\ last_writer' = [last_writer EXCEPT ![alias] = NoEntry]
    /\ UNCHANGED <<g_d1_registry_mutex, pc, attaching, overwrote>>
    /\ UNCHANGED <<planVars, scanVars, filterVars, exprVars, txnVars, mgrVars, typeVars, parseVars, bindVars, callVars>>

\* table_name.find('.'): the position of the first dot, 0 for npos.
DotPos(name) ==
    IF \E i \in 1..Len(name) : name[i] = "."
    THEN CHOOSE i \in 1..Len(name) :
            name[i] = "." /\ \A j \in 1..(i - 1) : name[j] # "."
    ELSE 0

FindAttached_Any(db_alias, registry) ==
    IF db_alias # <<>> THEN {e \in registry : e.alias = db_alias} ELSE registry

\* "Look up in registry": the entry under a non-empty alias; none for an
\* unqualified name.
FindAttached(db_alias, registry) ==
    IF db_alias # <<>> THEN {e \in registry : e.alias = db_alias} ELSE {}

\* The table reference D1ReplacementScan returns for a name.
ReplacementFor(name, registry) ==
    LET dot_pos == DotPos(name)
        db_alias == IF dot_pos # 0 THEN SubSeq(name, 1, dot_pos - 1) ELSE <<>>
        table == IF dot_pos # 0 THEN SubSeq(name, dot_pos + 1, Len(name)) ELSE name
        found == FindAttached(db_alias, registry)
    IN  IF found = {} THEN NoReplacement
        ELSE LET entry == CHOOSE e \in found : TRUE
             IN  IF table \in entry.tables
                 THEN [function |-> "d1_scan", table_name |-> table,
                       secret_name |-> entry.secret_name,
                       database_id |-> entry.database_id]
                 ELSE NoReplacement

\* D1ReplacementScan on one table reference, under the mutex.
D1ReplacementScan(name) ==
    /\ g_d1_registry_mutex = 0
    /\ last_op' = "lookup"
    /\ input_table_name' = name
    /\ replacement' = ReplacementFor(name, g_d1_attached_databases)
    /\ detached' = FALSE
    /\ UNCHANGED <<g_d1_attached_databases, g_d1_registry_mutex, pc, attaching,
                   last_writer, overwrote>>
    /\ UNCHANGED <<planVars, scanVars, filterVars, exprVars, txnVars, mgrVars, typeVars, parseVars, bindVars, callVars>>

\* The registry at load time: empty, no thread in d1_attach.
RegIdle ==
    /\ g_d1_attached_databases = {}
    /\ g_d1_registry_mutex = 0
    /\ pc = [p \in Threads |-> "idle"]
    /\ attaching = [p \in Threads |-> NoEntry]
    /\ last_writer = [a \in RegistryAliases |-> NoEntry]
    /\ overwrote = FALSE
    /\ last_op = ""
    /\ input_table_name = <<>>
    /\ replacement = NoReplacement
    /\ detached = FALSE

-----------------------------------------------------------------------------
(* Remote calls of d1_attach and d1_attach_views                           *)

NoRaise == [error |-> "", alias |-> <<>>]

\* No thread waits for a remote call.
CallIdle ==
    /\ in_flight = [p \in Threads |-> ""]
    /\ attach_raised = [p \in Threads |-> NoRaise]
    /\ views_left = [p \in Threads |-> {}]

RegistryAfterRaise_Erased(registry, alias) == {e \in registry : e.alias # alias}

\* An exception in D1AttachBind leaves the function before the registration
\* block: the registry is as it was.
RegistryAfterRaise(registry, alias) == registry

\* D1AttachBind raises: the locals are gone, the error goes to the caller.
AttachRaise(p, error, alias) ==
    /\ pc' = [pc EXCEPT ![p] = "idle"]
    /\ attaching' = [attaching EXCEPT ![p] = NoEntry]
    /\ in_flight' = [in_flight EXCEPT ![p] = ""]
    /\ attach_raised' = [attach_raised EXCEPT ![p] = [error |-> error, alias |-> alias]]
    /\ g_d1_attached_databases' = RegistryAfterRaise(g_d1_attached_databases, alias)
    /\ RegistryOp("attach")
    /\ UNCHANGED <<g_d1_registry_mutex, last_writer, overwrote, views_left>>
    /\ UNCHANGED <<planVars, scanVars, filterVars, exprVars, txnVars, mgrVars, typeVars, parseVars, bindVars>>

\* D1AttachBind, first part: the arguments are read and the secret looked
\* up; with the secret found, the database is looked up at the remote.
AttachSecret(p, db_input, secret_name, alias_arg, secret_found) ==
    /\ pc[p] = "idle"
    /\ IF ~secret_found
       THEN AttachRaise(p, "InvalidInputException",
                        IF alias_arg # NoAlias THEN alias_arg ELSE db_input)
       ELSE /\ pc' = [pc EXCEPT ![p] = "resolving"]
            /\ attaching' = [attaching EXCEPT
                                ![p] = Attached(db_input, secret_name, alias_arg, {})]
            /\ in_flight' = [in_flight EXCEPT
                                ![p] = IF is_uuid(db_input) THEN "D1ListDatabases"
                                       ELSE "D1GetDatabaseIdByName"]
            /\ attach_raised' = [attach_raised EXCEPT ![p] = NoRaise]
            /\ RegistryOp("attach")
            /\ UNCHANGED <<g_d1_attached_databases, g_d1_registry_mutex, last_writer,
                           overwrote, views_left>>
            /\ UNCHANGED <<planVars, scanVars, filterVars, exprVars, txnVars, mgrVars, typeVars, parseVars, bindVars>>

\* The lookup of the database returns or raises; after it the table list is
\* fetched.
AttachResolved(p, ok) ==
    /\ pc[p] = "resolving"
    /\ IF ~ok
       THEN AttachRaise(p, "IOException", attaching[p].alias)
       ELSE /\ pc' = [pc EXCEPT ![p] = "listing"]
            /\ in_flight' = [in_flight EXCEPT ![p] = "D1GetTables"]
            /\ RegistryOp("attach")
            /\ UNCHANGED <<g_d1_attached_databases, g_d1_registry_mutex, attaching,
                           last_writer, overwrote, attach_raised, views_left>>
            /\ UNCHANGED <<planVars, scanVars, filterVars, exprVars, txnVars, mgrVars, typeVars, parseVars, bindVars>>

\* D1GetTables returns the table list or raises.
AttachListed(p, tables, ok) ==
    /\ pc[p] = "listing"
    /\ IF ~ok
       THEN AttachRaise(p, "IOException", attaching[p].alias)
       ELSE /\ pc' = [pc EXCEPT ![p] = "bound"]
            /\ attaching' = [attaching EXCEPT ![p].tables = tables]
            /\ in_flight' = [in_flight EXCEPT ![p] = ""]
            /\ RegistryOp("attach")
            /\ UNCHANGED <<g_d1_attached_databases, g_d1_registry_mutex, last_writer,
                           overwrote, attach_raised, views_left>>
            /\ UNCHANGED <<planVars, scanVars, filterVars, exprVars, txnVars, mgrVars, typeVars, parseVars, bindVars>>

\* D1AttachViewsScalarFunction on one alias: the mutex is taken for the
\* whole of the lambda; an alias that is not attached raises.
AttachViews(p, alias) ==
    /\ pc[p] = "idle"
    /\ g_d1_registry_mutex = 0
    /\ IF HasAlias(g_d1_attached_databases, alias)
       THEN /\ g_d1_registry_mutex' = p
            /\ pc' = [pc EXCEPT ![p] = "views"]
            /\ views_left' = [views_left EXCEPT
                  ![p] = (CHOOSE e \in g_d1_attached_databases : e.alias = alias).tables]
       ELSE UNCHANGED <<g_d1_registry_mutex, pc, views_left>>
    /\ RegistryOp("views")
    /\ UNCHANGED <<g_d1_attached_databases, attaching, last_writer, overwrote,
                   in_flight, attach_raised>>
    /\ UNCHANGED <<planVars, scanVars, filterVars, exprVars, txnVars, mgrVars, typeVars, parseVars, bindVars>>

\* conn.Query(CREATE OR REPLACE VIEW ... AS SELECT * FROM d1_scan(...)) for
\* the next table: the statement is bound, and the bind of d1_scan asks the
\* remote for the table's columns.
ViewQuery(p) ==
    /\ pc[p] = "views"
    /\ views_left[p] # {}
    /\ pc' = [pc EXCEPT ![p] = "view_query"]
    /\ in_flight' = [in_flight EXCEPT ![p] = "D1GetTableColumns"]
    /\ RegistryOp("views")
    /\ UNCHANGED <<g_d1_attached_databases, g_d1_registry_mutex, attaching,
                   last_writer, overwrote, attach_raised, views_left>>
    /\ UNCHANGED <<planVars, scanVars, filterVars, exprVars, txnVars, mgrVars, typeVars, parseVars, bindVars>>

\* The statement returns (its errors are ignored); the loop goes on.
ViewCreated(p) ==
    /\ pc[p] = "view_query"
    /\ pc' = [pc EXCEPT ![p] = "views"]
    /\ in_flight' = [in_flight EXCEPT ![p] = ""]
    /\ \E table \in views_left[p] :
          views_left' = [views_left EXCEPT ![p] = @ \ {table}]
    /\ RegistryOp("views")
    /\ UNCHANGED <<g_d1_attached_databases, g_d1_registry_mutex, attaching,
                   last_writer, overwrote, attach_raised>>
    /\ UNCHANGED <<planVars, scanVars, filterVars, exprVars, txnVars, mgrVars, typeVars, parseVars, bindVars>>

\* The end of the lambda: the mutex is released.
ViewsDone(p) ==
    /\ pc[p] = "views"
    /\ views_left[p] = {}
    /\ pc' = [pc EXCEPT ![p] = "idle"]
    /\ g_d1_registry_mutex' = 0
    /\ RegistryOp("views")
    /\ UNCHANGED <<g_d1_attached_databases, attaching, last_writer, overwrote,
                   in_flight, attach_raised, views_left>>
    /\ UNCHANGED <<planVars, scanVars, filterVars, exprVars, txnVars, mgrVars, typeVars, parseVars, bindVars>>

-----------------------------------------------------------------------------
(* Type mapping                                                            *)

ToUpper(c) ==
    CASE c = "i" -> "I" [] c = "n" -> "N" [] c = "t" -> "T" [] c = "b" -> "B"
      [] c = "o" -> "O" [] c = "l" -> "L" [] OTHER -> c

UpperCase(str) == [i \in 1..Len(str) |-> ToUpper(str[i])]

\* string::find(marker) != npos
Contains(str, marker) ==
    \E i \in 0..(Len(str) - Len(marker)) :
        SubSeq(str, i + 1, i + Len(marker)) = marker

\* SQLiteTypeToDuckDB
SQLiteTypeToDuckDB(type) ==
    LET upper_type == UpperCase(type)
        Has(m) == Contains(upper_type, m)
    IN  IF Has(<<"I", "N", "T">>) THEN "BIGINT"
        ELSE IF \/ Has(<<"C", "H", "A", "R">>)
                \/ Has(<<"C", "L", "O", "B">>)
                \/ Has(<<"T", "E", "X", "T">>) THEN "VARCHAR"
        ELSE IF Has(<<"B", "L", "O", "B">>) \/ upper_type = <<>> THEN "BLOB"
        ELSE IF \/ Has(<<"R", "E", "A", "L">>)
                \/ Has(<<"F", "L", "O", "A">>)
                \/ Has(<<"D", "O", "U", "B">>) THEN "DOUBLE"
        ELSE IF Has(<<"B", "O", "O", "L">>) THEN "BOOLEAN"
        ELSE IF Has(<<"D", "A", "T", "E">>) THEN "DATE"
        ELSE IF Has(<<"T", "I", "M", "E">>) THEN "TIMESTAMP"
        ELSE "VARCHAR"

\* No declared type is being mapped.
TypeIdle ==
    /\ sqlite_type = <<>>
    /\ logical_type = ""
    /\ type_mapped = FALSE

-----------------------------------------------------------------------------
(* Response parsing                                                        *)

\* Texts are strings of characters.  Positions count from 1; 0 stands for
\* string::npos.
Quote == "\""
Backslash == "\\"
Whitespace == {" ", "\t", "\n"}

Least(positions) == CHOOSE x \in positions : \A y \in positions : x <= y

\* text.find(ch, from)
Find(text, ch, from) ==
    LET found == {i \in from..Len(text) : text[i] = ch}
    IN  IF found = {} THEN 0 ELSE Least(found)

\* text.find(word, from)
FindWord(text, word, from) ==
    LET found == {i \in from..(Len(text) - Len(word) + 1) :
                     SubSeq(text, i, i + Len(word) - 1) = word}
    IN  IF found = {} THEN 0 ELSE Least(found)

\* text.substr(pos, n)
Substr(text, pos, n) == SubSeq(text, pos, Min(pos + n - 1, Len(text)))

\* while (pos < size && text[pos] is one of chars) pos++
SkipChars(text, chars, pos) ==
    IF pos > Len(text) THEN pos
    ELSE Least({i \in pos..(Len(text) + 1) : i > Len(text) \/ text[i] \notin chars})

\* "String value": the position of the closing quote, a backslash skipping
\* the character after it.
RECURSIVE StringEnd(_, _)
StringEnd(text, val_end) ==
    IF val_end <= Len(text) /\ text[val_end] # Quote
    THEN IF text[val_end] = Backslash /\ val_end + 1 <= Len(text)
         THEN StringEnd(text, val_end + 2)
         ELSE StringEnd(text, val_end + 1)
    ELSE val_end

\* "Number": the position of the next ',' or '}'.
NumberEnd(text, val_end) ==
    IF val_end > Len(text) THEN val_end
    ELSE Least({i \in val_end..(Len(text) + 1) : i > Len(text) \/ text[i] \in {",", "}"}})

\* "Trim whitespace" at the end of a number
RECURSIVE TrimRight(_)
TrimRight(value) ==
    IF value # <<>> /\ value[Len(value)] \in Whitespace
    THEN TrimRight(SubSeq(value, 1, Len(value) - 1))
    ELSE value

\* "Parse value": the text stored for the value that starts at pos, and the
\* position after it.  null is stored as the empty text.
ParseValue(text, pos) ==
    IF pos > Len(text) THEN [value |-> <<>>, pos |-> pos]
    ELSE IF text[pos] = Quote
    THEN LET val_end == StringEnd(text, pos + 1)
         IN  [value |-> SubSeq(text, pos + 1, Min(val_end - 1, Len(text))),
              pos |-> val_end + 1]
    ELSE IF Substr(text, pos, 4) = <<"n", "u", "l", "l">>
    THEN [value |-> <<>>, pos |-> pos + 4]
    ELSE IF Substr(text, pos, 4) = <<"t", "r", "u", "e">>
    THEN [value |-> <<"1">>, pos |-> pos + 4]
    ELSE IF Substr(text, pos, 5) = <<"f", "a", "l", "s", "e">>
    THEN [value |-> <<"0">>, pos |-> pos + 5]
    ELSE LET val_end == NumberEnd(text, pos)
         IN  [value |-> TrimRight(SubSeq(text, pos, val_end - 1)), pos |-> val_end]

InOrder(order, key) == \E i \in 1..Len(order) : order[i] = key

TrackColumn_Always(order, key) == Append(order, key)

\* "Track column order": a key is appended unless it is in the list.
TrackColumn(order, key) == IF InOrder(order, key) THEN order ELSE Append(order, key)

\* row[key] = value
Put(row, key, value) ==
    [k \in DOMAIN row \cup {key} |-> IF k = key THEN value ELSE row[k]]

\* The loop of ParseResultRow over the "key": value pairs from pos on.
RECURSIVE ParsePairs(_, _, _, _)
ParsePairs(text, pos0, row, order) ==
    LET pos == SkipChars(text, Whitespace, pos0)
        done == [row |-> row, column_order |-> order]
    IN  IF pos > Len(text) \/ text[pos] = "}" THEN done
        ELSE IF text[pos] = "," THEN ParsePairs(text, pos + 1, row, order)
        ELSE IF text[pos] # Quote THEN done
        ELSE LET key_end == Find(text, Quote, pos + 1) IN
             IF key_end = 0 THEN done
             ELSE LET key == SubSeq(text, pos + 1, key_end - 1)
                      v == ParseValue(text, SkipChars(text, {":", " ", "\t"}, key_end + 1))
                  IN  ParsePairs(text, v.pos, Put(row, key, v.value),
                                 TrackColumn(order, key))

\* ParseResultRow: the key-to-text mapping of one row object, and the
\* column order extended by its new keys.
ParseResultRow(row_json, order) ==
    LET pos == Find(row_json, "{", 1)
    IN  IF pos = 0 THEN [row |-> <<>>, column_order |-> order]
        ELSE ParsePairs(row_json, pos + 1, <<>>, order)

\* The next position from pos on whose character the row loop acts on: a
\* brace or a closing bracket; past the end when there is none.
NextStructural(text, pos) ==
    IF pos > Len(text) THEN pos
    ELSE Least({i \in pos..(Len(text) + 1) : i > Len(text) \/ text[i] \in {"{", "}", "]"}})

\* "Parse each row object in the results array": the loop of ParseD1Response
\* over the characters from pos0 on.
RECURSIVE RowLoop(_, _, _, _, _, _)
RowLoop(text, pos0, brace_depth, row_start, results, order) ==
    LET pos == NextStructural(text, pos0) IN
    IF pos > Len(text) THEN [results |-> results, column_order |-> order]
    ELSE IF text[pos] = "{"
    THEN RowLoop(text, pos + 1, brace_depth + 1,
                 IF brace_depth = 0 THEN pos ELSE row_start, results, order)
    ELSE IF text[pos] = "}"
    THEN IF brace_depth - 1 = 0
         THEN LET r == ParseResultRow(SubSeq(text, row_start, pos), order)
              IN  RowLoop(text, pos + 1, 0, row_start,
                          IF r.row # <<>> THEN Append(results, r.row) ELSE results,
                          r.column_order)
         ELSE RowLoop(text, pos + 1, brace_depth - 1, row_start, results, order)
    ELSE IF brace_depth = 0
    THEN [results |-> results, column_order |-> order]
    ELSE RowLoop(text, pos + 1, brace_depth, row_start, results, order)

ResultsKey == <<Quote, "r", "e", "s", "u", "l", "t", "s", Quote, ":">>

\* The rows and column order ParseD1Response extracts from a response body.
ParseResultsArray(text) ==
    LET results_pos == FindWord(text, ResultsKey, 1)
        arr_start == IF results_pos = 0 THEN 0 ELSE Find(text, "[", results_pos)
    IN  IF results_pos = 0 \/ arr_start = 0
        THEN [results |-> <<>>, column_order |-> <<>>]
        ELSE RowLoop(text, arr_start + 1, 0, 0, <<>>, <<>>)

\* A host value in an output cell.
NullCell == [is_null |-> TRUE, type |-> "", text |-> <<>>, number |-> 0]
TextCell(text) == [is_null |-> FALSE, type |-> "VARCHAR", text |-> text, number |-> 0]
BigintCell(n) == [is_null |-> FALSE, type |-> "BIGINT", text |-> <<>>, number |-> n]
BooleanCell(b) ==
    [is_null |-> FALSE, type |-> "BOOLEAN", text |-> <<>>, number |-> IF b THEN 1 ELSE 0]

Digits == <<"0", "1", "2", "3", "4", "5", "6", "7", "8", "9">>
IsDigit(c) == \E d \in 1..10 : Digits[d] = c
DigitValue(c) == (CHOOSE d \in 1..10 : Digits[d] = c) - 1

\* std::stoll on a text without sign or leading blanks: the number its
\* leading digits spell; -1 stands for the exception it throws without any.
RECURSIVE LeadingNumber(_, _)
LeadingNumber(val, acc) ==
    IF val # <<>> /\ IsDigit(Head(val))
    THEN LeadingNumber(Tail(val), 10 * acc + DigitValue(Head(val)))
    ELSE acc

Stoll(val) == IF val # <<>> /\ IsDigit(Head(val)) THEN LeadingNumber(val, 0) ELSE -1

\* The cell D1ScanFunction (and D1QueryFunction, all of whose columns are
\* VARCHAR) writes for a column of a parsed row.
CellValue(type, row, col_name) ==
    IF col_name \in DOMAIN row /\ row[col_name] # <<>>
    THEN CASE type = "BIGINT" ->
                IF Stoll(row[col_name]) = -1 THEN NullCell
                ELSE BigintCell(Stoll(row[col_name]))
           [] type = "BOOLEAN" ->
                BooleanCell(row[col_name] = <<"1">> \/ row[col_name] = <<"t", "r", "u", "e">>)
           [] OTHER -> TextCell(row[col_name])
    ELSE NullCell

\* Nothing is being parsed.
ParseIdle ==
    /\ json_rows = <<>>
    /\ response_body = <<>>
    /\ parsed_rows = <<>>
    /\ column_order = <<>>
    /\ parse_done = FALSE
    /\ column_type = "VARCHAR"
    /\ cells = <<>>
    /\ cells_done = FALSE

-----------------------------------------------------------------------------
(* Binding of the table functions                                          *)

\* A named parameter that is not given, an environment variable that is
\* not set.
Absent == "<absent>"

\* The secrets of the secret manager: one with both credentials, one
\* without the token.
SecretStore ==
    [full |-> [account_id |-> "acc", api_token |-> "tok"],
     partial |-> [account_id |-> "acc", api_token |-> ""]]

\* The names of the databases of the account, and their ids.
RemoteDatabases == [main |-> "id-main"]

\* The state of a bind: the configuration so far, the exception raised,
\* the HTTP requests issued.
BindState(account_id, api_token, database_id, error, requests) ==
    [account_id |-> account_id, api_token |-> api_token, database_id |-> database_id,
     error |-> error, requests |-> requests]

\* GetD1ConfigFromSecret: the credentials of the secret; the database id is
\* not part of it.
GetD1ConfigFromSecret(secret_name) ==
    IF secret_name \notin DOMAIN SecretStore
    THEN BindState("", "", "", "InvalidInputException", 0)
    ELSE BindState(SecretStore[secret_name].account_id, SecretStore[secret_name].api_token,
                   "", "", 0)

\* A credential from its named parameter, else from its environment
\* variable, else empty.
FromParameterOrEnv(parameter, env) ==
    IF parameter # Absent THEN parameter ELSE IF env # Absent THEN env ELSE ""

\* "Check for secret parameter first" and "Validate we have credentials".
ResolveCredentials(input) ==
    LET c == IF input.secret # Absent THEN GetD1ConfigFromSecret(input.secret)
             ELSE BindState(FromParameterOrEnv(input.account_id, input.env_account_id),
                            FromParameterOrEnv(input.api_token, input.env_api_token),
                            "", "", 0)
    IN  IF c.error # "" THEN c
        ELSE IF c.account_id = "" \/ c.api_token = ""
        THEN [c EXCEPT !.error = "BinderException"]
        ELSE c

\* D1GetDatabaseIdByName: one request for the list of databases; it fails
\* in transport, or the name is looked up in the list.
D1GetDatabaseIdByName(c, db_name, transport_ok) ==
    IF ~transport_ok THEN [c EXCEPT !.error = "IOException", !.requests = @ + 1]
    ELSE IF db_name \in DOMAIN RemoteDatabases
    THEN [c EXCEPT !.database_id = RemoteDatabases[db_name], !.requests = @ + 1]
    ELSE [c EXCEPT !.error = "IOException", !.requests = @ + 1]

\* "Get database ID" of ResolveD1Config: a missing database id is left empty.
ResolveDatabase(c, input, transport_ok) ==
    IF input.database_id # Absent THEN [c EXCEPT !.database_id = input.database_id]
    ELSE IF input.database # Absent THEN D1GetDatabaseIdByName(c, input.database, transport_ok)
    ELSE IF input.env_database_id # Absent
    THEN [c EXCEPT !.database_id = input.env_database_id]
    ELSE c

\* ResolveD1Config
ResolveD1Config(input, transport_ok) ==
    LET c == ResolveCredentials(input)
    IN  IF c.error # "" THEN c ELSE ResolveDatabase(c, input, transport_ok)

\* A remote call made once the configuration is complete: one request,
\* which may fail.
RemoteCall(c, transport_ok) ==
    IF transport_ok THEN [c EXCEPT !.requests = @ + 1]
    ELSE [c EXCEPT !.error = "IOException", !.requests = @ + 1]

\* D1QueryBind: the configuration is resolved, an empty database id is
\* refused, the query is executed.
D1QueryBind(input, lookup_ok, call_ok) ==
    LET c == ResolveD1Config(input, lookup_ok)
    IN  IF c.error # "" THEN c
        ELSE IF c.database_id = "" THEN [c EXCEPT !.error = "BinderException"]
        ELSE RemoteCall(c, call_ok)

\* D1DatabasesBind: the credentials, then the list of databases.
D1DatabasesBind(input, call_ok) ==
    LET c == ResolveCredentials(input)
    IN  IF c.error # "" THEN c ELSE RemoteCall(c, call_ok)

\* "Get database" of D1TablesBind: only the absence of all three sources is
\* refused.
TablesDatabase(c, input, transport_ok) ==
    IF input.database_id # Absent THEN [c EXCEPT !.database_id = input.database_id]
    ELSE IF input.database # Absent THEN D1GetDatabaseIdByName(c, input.database, transport_ok)
    ELSE IF input.env_database_id # Absent
    THEN [c EXCEPT !.database_id = input.env_database_id]
    ELSE [c EXCEPT !.error = "BinderException"]

\* D1TablesBind: the credentials, the database, then the list of tables.
D1TablesBind(input, lookup_ok, call_ok) ==
    LET c == ResolveCredentials(input)
        d == TablesDatabase(c, input, lookup_ok)
    IN  IF c.error # "" THEN c
        ELSE IF d.error # "" THEN d
        ELSE RemoteCall(d, call_ok)

NoBindInput ==
    [secret |-> Absent, account_id |-> Absent, env_account_id |-> Absent,
     api_token |-> Absent, env_api_token |-> Absent, database_id |-> Absent,
     database |-> Absent, env_database_id |-> Absent]

\* Nothing is being bound.
BindIdle ==
    /\ bind_function = ""
    /\ bind_input = NoBindInput
    /\ bind_error = ""
    /\ http_requests = 0
    /\ bind_done = FALSE

-----------------------------------------------------------------------------
(* Specification of the rewriter run on arbitrary plans                    *)

\* A binding as D1ScanBind leaves it, with no remote table behind it.
ScanIdle ==
    /\ remote = <<>>
    /\ where_clause = ""
    /\ executed = FALSE
    /\ result = EmptyResult
    /\ current_row = 0
    /\ output = <<>>
    /\ raised = ""
    /\ emitted = <<>>
    /\ sql_log = <<>>
    /\ pulls = 0
    /\ failed = FALSE
    /\ pre_row = 0

\* No filter list has been handed to the binding.
FilterIdle ==
    /\ filters = <<>>
    /\ given = <<>>
    /\ sql_conditions = <<>>
    /\ filters_to_remove = <<>>
    /\ pushed_log = <<>>
    /\ prev_where = ""
    /\ invocations = 0

\* No comparison is being translated.
ExprIdle ==
    /\ comp = FunctionCall
    /\ tuple = <<>>
    /\ comp_sql = ""
    /\ translated = FALSE

\* A plan that is a bare scan, never rewritten.
PlanIdle ==
    /\ plan = LogicalGet("d1_scan", 1)
    /\ origPlan = plan
    /\ prevPlan = plan
    /\ bind_limit = [b \in BindIds |-> 0]
    /\ prevLimit = bind_limit
    /\ runs = 0
    /\ visited = <<>>

InitPlan ==
    /\ plan \in Plans
    /\ origPlan = plan
    /\ prevPlan = plan
    /\ bind_limit = [b \in BindIds |-> 0]
    /\ prevLimit = bind_limit
    /\ runs = 0
    /\ visited = <<>>
    /\ ScanIdle
    /\ FilterIdle
    /\ ExprIdle
    /\ TxnIdle
    /\ MgrIdle
    /\ RegIdle
    /\ TypeIdle
    /\ ParseIdle
    /\ BindIdle
    /\ CallIdle

\* One run of the optimizer extension over the whole plan.
OptimizerRun ==
    /\ LET r == OptimizeD1ScanLimitPushdown(plan, bind_limit)
       IN  /\ plan' = r.op
           /\ bind_limit' = r.limits
    /\ prevPlan' = plan
    /\ prevLimit' = bind_limit
    /\ runs' = runs + 1
    /\ visited' = Visits(plan, <<>>)
    /\ UNCHANGED origPlan

\* D1Optimizer, run (and re-run) on a plan.
D1Optimizer ==
    /\ runs < MaxRuns
    /\ OptimizerRun
    /\ UNCHANGED <<scanVars, filterVars, exprVars, txnVars, mgrVars, regVars, typeVars, parseVars, bindVars, callVars>>

NextPlan == D1Optimizer

SpecPlan == InitPlan /\ [][NextPlan]_vars

-----------------------------------------------------------------------------
(* Specification of one query over a d1_scan: bind, optimize, pull         *)

ScanPlans ==
    Chains(ScanDepth, {LogicalGet("d1_scan", 1)}, Wrappers({0, 1}, {2}))

InitScan ==
    /\ plan \in ScanPlans
    /\ origPlan = plan
    /\ prevPlan = plan
    /\ bind_limit = [b \in BindIds |-> 0]
    /\ prevLimit = bind_limit
    /\ runs = 0
    /\ visited = <<>>
    /\ remote \in SeqsUpTo(Rows, MaxRows)
    /\ where_clause = ""
    /\ executed = FALSE
    /\ result = EmptyResult
    /\ current_row = 0
    /\ output = <<>>
    /\ raised = ""
    /\ emitted = <<>>
    /\ sql_log = <<>>
    /\ pulls = 0
    /\ failed = FALSE
    /\ pre_row = 0
    /\ FilterIdle
    /\ ExprIdle
    /\ TxnIdle
    /\ MgrIdle
    /\ RegIdle
    /\ TypeIdle
    /\ ParseIdle
    /\ BindIdle
    /\ CallIdle

\* The optimizer extension runs once on a query's plan, before execution.
OptimizeQuery ==
    /\ runs = 0
    /\ OptimizerRun
    /\ UNCHANGED <<scanVars, filterVars, exprVars, txnVars, mgrVars, regVars, typeVars, parseVars, bindVars, callVars>>

NextScan ==
    \/ OptimizeQuery
    \/ \E outcome \in Outcomes : D1ScanFunction(outcome)

SpecScan == InitScan /\ [][NextScan]_vars

\* The scan has been pulled to its end without an error.
ScanExhausted == pulls > 0 /\ ~failed /\ raised = "" /\ output = <<>>

-----------------------------------------------------------------------------
(* Specification of filter pushdown on one binding                         *)

\* Filters the host hands over: translatable comparisons in both operand
\* orders, a comparison with an operator that has no SQL form, a function
\* call, and conjunctions over such children.
EqA == Comparison("COMPARE_EQUAL", ColumnRef("a"), Constant(IntegerValue(1)))
LtA == Comparison("COMPARE_LESSTHAN", Constant(IntegerValue(2)), ColumnRef("a"))
DistinctA == Comparison("COMPARE_DISTINCT_FROM", ColumnRef("a"), Constant(IntegerValue(1)))
ColCol == Comparison("COMPARE_EQUAL", ColumnRef("a"), ColumnRef("b"))
EqC == Comparison("COMPARE_NOTEQUAL", ColumnRef("c"), Constant(VarcharValue(<<"o", "'", "k">>)))

ChildPool ==
    {EqA, LtA, EqC, DistinctA, ColCol, FunctionCall,
     Conjunction("CONJUNCTION_AND", <<EqA, LtA>>)}

Conjunctions ==
    {Conjunction(t, cs) : t \in {"CONJUNCTION_AND", "CONJUNCTION_OR"},
                          cs \in {q \in SeqsUpTo(ChildPool, MaxChildren) : Len(q) >= 2}}

FilterPool == {EqA, LtA, FunctionCall, Conjunction("CONJUNCTION_AND", <<EqA, FunctionCall>>)}

FilterLists == SeqsUpTo(FilterPool, MaxFilters)

\* Lists holding one conjunction, alone or after one other filter.
ConjunctionLists ==
    {<<c>> : c \in Conjunctions} \cup {<<f, c>> : f \in {EqA, FunctionCall}, c \in Conjunctions}

InitFilter ==
    /\ PlanIdle
    /\ ScanIdle
    /\ FilterIdle
    /\ ExprIdle
    /\ TxnIdle
    /\ MgrIdle
    /\ RegIdle
    /\ TypeIdle
    /\ ParseIdle
    /\ BindIdle
    /\ CallIdle

\* D1ScanPushdownComplexFilter: one invocation on the filter list fs.
D1ScanPushdownComplexFilter(fs) ==
    /\ invocations < MaxInvocations
    /\ invocations' = invocations + 1
    /\ given' = fs
    /\ sql_conditions' = SqlConditions(fs)
    /\ filters_to_remove' = FiltersToRemove(fs)
    /\ where_clause' = BuildWhere(where_clause, SqlConditions(fs))
    /\ filters' = Residual(fs, FiltersToRemove(fs))
    /\ pushed_log' = pushed_log \o SqlConditions(fs)
    /\ prev_where' = where_clause
    /\ UNCHANGED <<remote, executed, result, current_row, output, raised,
                   emitted, sql_log, pulls, failed, pre_row>>
    /\ UNCHANGED <<planVars, exprVars, txnVars, mgrVars, regVars, typeVars, parseVars, bindVars, callVars>>

NextFilter == \E fs \in FilterLists : D1ScanPushdownComplexFilter(fs)

SpecFilter == InitFilter /\ [][NextFilter]_vars

\* The first invocation on a binding, handed a list with a conjunction.
PushdownConjunction ==
    /\ invocations = 0
    /\ \E fs \in ConjunctionLists : D1ScanPushdownComplexFilter(fs)

NextConjunction == PushdownConjunction

SpecConjunction == InitFilter /\ [][NextConjunction]_vars

-----------------------------------------------------------------------------
(* Specification of the translation of one comparison                      *)

ComparisonTypes ==
    {"COMPARE_EQUAL", "COMPARE_NOTEQUAL", "COMPARE_LESSTHAN", "COMPARE_GREATERTHAN",
     "COMPARE_LESSTHANOREQUALTO", "COMPARE_GREATERTHANOREQUALTO",
     "COMPARE_DISTINCT_FROM"}

\* Column a is a nullable INTEGER, column b a BOOLEAN.
ColumnConstants ==
    ({"a"} \X ({IntegerValue(n) : n \in 0..MaxVal} \cup {NullValue("INTEGER")}))
    \cup ({"b"} \X {BooleanValue(TRUE), BooleanValue(FALSE)})

Comparisons ==
    {Comparison(t, ColumnRef(cc[1]), Constant(cc[2])) :
        t \in ComparisonTypes, cc \in ColumnConstants}
    \cup {Comparison(t, Constant(cc[2]), ColumnRef(cc[1])) :
        t \in ComparisonTypes, cc \in ColumnConstants}

Tuples ==
    [a : {IntegerValue(n) : n \in 0..MaxVal} \cup {NullValue("INTEGER")},
     b : {BooleanValue(TRUE), BooleanValue(FALSE)}]

InitTranslate ==
    /\ PlanIdle
    /\ ScanIdle
    /\ FilterIdle
    /\ comp \in Comparisons
    /\ tuple \in Tuples
    /\ comp_sql = ""
    /\ translated = FALSE
    /\ TxnIdle
    /\ MgrIdle
    /\ RegIdle
    /\ TypeIdle
    /\ ParseIdle
    /\ BindIdle
    /\ CallIdle

\* ExpressionToSQL applied to the comparison.
Translate ==
    /\ ~translated
    /\ comp_sql' = ExpressionToSQL(comp)
    /\ translated' = TRUE
    /\ UNCHANGED <<comp, tuple>>
    /\ UNCHANGED <<planVars, scanVars, filterVars, txnVars, mgrVars, regVars, typeVars, parseVars, bindVars, callVars>>

NextTranslate == Translate

SpecTranslate == InitTranslate /\ [][NextTranslate]_vars

-----------------------------------------------------------------------------
(* Specification of one transaction                                        *)

InitTxn ==
    /\ PlanIdle
    /\ ScanIdle
    /\ FilterIdle
    /\ ExprIdle
    /\ TxnIdle
    /\ MgrIdle
    /\ RegIdle
    /\ TypeIdle
    /\ ParseIdle
    /\ BindIdle
    /\ CallIdle

BatchResults == UNION {D1ExecuteBatch(n) : n \in 1..MaxBuffer} \cup {NoBatchResult}

NextTxn ==
    \/ Start /\ UNCHANGED mgrVars
    \/ \E stmt \in Statements : BufferStatement(stmt) /\ UNCHANGED mgrVars
    \/ \E res \in BatchResults : Commit(res) /\ UNCHANGED mgrVars
    \/ Rollback /\ UNCHANGED mgrVars
    \/ \E sql \in Reads : ExecuteRead(sql) /\ UNCHANGED mgrVars

SpecTxn == InitTxn /\ [][NextTxn]_vars

-----------------------------------------------------------------------------
(* Specification of the transaction manager driving one transaction        *)

NextManager ==
    \/ StartTransaction
    \/ \E stmt \in Statements : ManagedWrite(stmt)
    \/ \E res \in BatchResults : CommitTransaction(res)
    \/ RollbackTransaction

SpecManager == InitTxn /\ [][NextManager]_vars

-----------------------------------------------------------------------------
(* Specification of concurrent d1_attach, d1_detach and table lookups      *)

InitRegistry ==
    /\ PlanIdle
    /\ ScanIdle
    /\ FilterIdle
    /\ ExprIdle
    /\ TxnIdle
    /\ MgrIdle
    /\ RegIdle
    /\ TypeIdle
    /\ ParseIdle
    /\ BindIdle
    /\ CallIdle

\* Names the host asks a replacement for.
LookupNames ==
    {TableT, AliasA \o <<".">> \o TableT, AliasB \o <<".">> \o TableT,
     AliasA \o <<".">> \o TableBT, <<".">> \o TableT, AliasA \o <<".">>}

NextRegistry ==
    \/ \E p \in Threads, db_input \in DbInputs, secret_name \in Secrets,
          alias_arg \in {NoAlias, AliasA}, tables \in TableLists :
            AttachBind(p, db_input, secret_name, alias_arg, tables)
    \/ \E p \in Threads : AttachLock(p)
    \/ \E p \in Threads : AttachIndex(p)
    \/ \E p \in Threads : AttachAssignNames(p)
    \/ \E p \in Threads : AttachAssignTables(p)
    \/ \E alias \in RegistryAliases : D1DetachScalarFunction(alias)
    \/ \E name \in LookupNames : D1ReplacementScan(name)

SpecRegistry == InitRegistry /\ [][NextRegistry]_vars

-----------------------------------------------------------------------------
(* Specification of the mapping of one declared type                       *)

\* Declared types: up to MaxFragments fragments, each a marker of a rule (in
\* upper, lower or mixed case) or a string that holds no marker.
Fragments ==
    {<<"I", "N", "T">>, <<"i", "n", "t">>, <<"C", "H", "A", "R">>,
     <<"C", "L", "O", "B">>, <<"T", "E", "X", "T">>, <<"B", "o", "o", "l">>,
     <<"D", "A", "T", "E">>, <<"T", "I", "M", "E">>, <<"b", "l", "o", "b">>,
     <<"R", "E", "A", "L">>, <<"F", "L", "O", "A">>, <<"D", "O", "U", "B">>,
     <<"X">>}

RECURSIVE Concat(_)
Concat(frags) == IF frags = <<>> THEN <<>> ELSE Head(frags) \o Concat(Tail(frags))

DeclaredTypes == {Concat(fs) : fs \in SeqsUpTo(Fragments, MaxFragments)}

InitTypeMap ==
    /\ PlanIdle
    /\ ScanIdle
    /\ FilterIdle
    /\ ExprIdle
    /\ TxnIdle
    /\ MgrIdle
    /\ RegIdle
    /\ sqlite_type \in DeclaredTypes
    /\ logical_type = ""
    /\ type_mapped = FALSE
    /\ ParseIdle
    /\ BindIdle
    /\ CallIdle

\* SQLiteTypeToDuckDB applied to the declared type.
MapType ==
    /\ ~type_mapped
    /\ logical_type' = SQLiteTypeToDuckDB(sqlite_type)
    /\ type_mapped' = TRUE
    /\ UNCHANGED sqlite_type
    /\ UNCHANGED <<planVars, scanVars, filterVars, exprVars, txnVars, mgrVars, regVars, parseVars, bindVars, callVars>>

NextTypeMap == MapType

SpecTypeMap == InitTypeMap /\ [][NextTypeMap]_vars

-----------------------------------------------------------------------------
(* Specification of the parsing of a response and the emission of its rows *)

\* A row object is a list of members; a member has a key and the JSON text
\* of its value.
Member(key, json) == [key |-> key, json |-> json]
JsonString(chars) == <<Quote>> \o chars \o <<Quote>>
JsonNull == <<"n", "u", "l", "l">>
JsonTrue == <<"t", "r", "u", "e">>

KeyA == <<"a">>
KeyB == <<"b">>
KeyC == <<"c">>

RowAB == <<Member(KeyA, JsonString(<<"1">>)), Member(KeyB, JsonString(<<"x">>))>>
RowAC == <<Member(KeyA, JsonString(<<"2">>)), Member(KeyC, JsonString(<<"y">>))>>
RowNull == <<Member(KeyA, JsonNull), Member(KeyB, JsonString(<<>>))>>
RowNumber == <<Member(KeyA, <<"4", "2">>), Member(KeyC, JsonTrue)>>
RowEscape == <<Member(KeyB, JsonString(<<"q", Backslash, Quote, "z">>))>>
RowBracket == <<Member(KeyA, JsonString(<<"]">>))>>
RowClose == <<Member(KeyA, JsonString(<<"}">>))>>
RowOpen == <<Member(KeyC, JsonString(<<"{">>))>>

JsonRows ==
    {RowAB, RowAC, RowNull, RowNumber, RowEscape, RowBracket, RowClose, RowOpen}

\* The text of a list of items separated by commas.
RECURSIVE Join(_)
Join(items) ==
    IF items = <<>> THEN <<>>
    ELSE IF Len(items) = 1 THEN items[1]
    ELSE items[1] \o <<",">> \o Join(Tail(items))

\* The text of a row object.
RowText(row) ==
    <<"{">> \o Join([i \in 1..Len(row) |-> JsonString(row[i].key) \o <<":">> \o row[i].json])
            \o <<"}">>

\* The body of a query response: the result set inside its envelope.
ResponseText(rows) ==
    <<"{", Quote, "r", "e", "s", "u", "l", "t", Quote, ":", "[", "{">>
    \o ResultsKey \o <<"[">> \o Join([i \in 1..Len(rows) |-> RowText(rows[i])])
    \o <<"]", ",", Quote, "s", "u", "c", "c", "e", "s", "s", Quote, ":">> \o JsonTrue
    \o <<"}", "]", ",", Quote, "s", "u", "c", "c", "e", "s", "s", Quote, ":">> \o JsonTrue
    \o <<"}">>

ColumnTypes == {"VARCHAR", "BIGINT", "BOOLEAN"}

InitParse ==
    /\ PlanIdle
    /\ ScanIdle
    /\ FilterIdle
    /\ ExprIdle
    /\ TxnIdle
    /\ MgrIdle
    /\ RegIdle
    /\ TypeIdle
    /\ BindIdle
    /\ CallIdle
    /\ json_rows \in SeqsUpTo(JsonRows, MaxJsonRows)
    /\ response_body = ResponseText(json_rows)
    /\ parsed_rows = <<>>
    /\ column_order = <<>>
    /\ parse_done = FALSE
    /\ column_type \in ColumnTypes
    /\ cells = <<>>
    /\ cells_done = FALSE

\* ParseD1Response on the response body.
ParseResponse ==
    /\ ~parse_done
    /\ LET r == ParseResultsArray(response_body)
       IN  /\ parsed_rows' = r.results
           /\ column_order' = r.column_order
    /\ parse_done' = TRUE
    /\ UNCHANGED <<json_rows, response_body, column_type, cells, cells_done>>
    /\ UNCHANGED <<planVars, scanVars, filterVars, exprVars, txnVars, mgrVars, regVars, typeVars, bindVars, callVars>>

\* The scan copies the parsed rows to the output, one cell per column.
EmitCells ==
    /\ parse_done
    /\ ~cells_done
    /\ cells' = [i \in 1..Len(parsed_rows) |->
                    [c \in 1..Len(column_order) |->
                        CellValue(column_type, parsed_rows[i], column_order[c])]]
    /\ cells_done' = TRUE
    /\ UNCHANGED <<json_rows, response_body, parsed_rows, column_order, parse_done,
                   column_type>>
    /\ UNCHANGED <<planVars, scanVars, filterVars, exprVars, txnVars, mgrVars, regVars, typeVars, bindVars, callVars>>

NextParse ==
    \/ ParseResponse
    \/ EmitCells

SpecParse == InitParse /\ [][NextParse]_vars

-----------------------------------------------------------------------------
(* Specification of the binding of the table functions                     *)

BindFunctions == {"d1_query", "d1_tables", "d1_databases"}

BindInputs ==
    [secret : {Absent, "full", "partial", "unknown"},
     account_id : {Absent, "", "acc"},
     env_account_id : {Absent, "acc"},
     api_token : {Absent, "tok"},
     env_api_token : {Absent, "tok"},
     database_id : {Absent, "", "id-main"},
     database : {Absent, "main", "other"},
     env_database_id : {Absent, "", "id-main"}]

InitBind ==
    /\ PlanIdle
    /\ ScanIdle
    /\ FilterIdle
    /\ ExprIdle
    /\ TxnIdle
    /\ MgrIdle
    /\ RegIdle
    /\ TypeIdle
    /\ ParseIdle
    /\ CallIdle
    /\ bind_function \in BindFunctions
    /\ bind_input \in BindInputs
    /\ bind_error = ""
    /\ http_requests = 0
    /\ bind_done = FALSE

\* The outcome of a bind is recorded.
Bound(c) ==
    /\ bind_error' = c.error
    /\ http_requests' = c.requests
    /\ bind_done' = TRUE
    /\ UNCHANGED <<bind_function, bind_input>>
    /\ UNCHANGED <<planVars, scanVars, filterVars, exprVars, txnVars, mgrVars, regVars, typeVars, parseVars, callVars>>

BindQuery ==
    /\ ~bind_done
    /\ bind_function = "d1_query"
    /\ \E lookup_ok, call_ok \in BOOLEAN : Bound(D1QueryBind(bind_input, lookup_ok, call_ok))

BindTables ==
    /\ ~bind_done
    /\ bind_function = "d1_tables"
    /\ \E lookup_ok, call_ok \in BOOLEAN : Bound(D1TablesBind(bind_input, lookup_ok, call_ok))

BindDatabases ==
    /\ ~bind_done
    /\ bind_function = "d1_databases"
    /\ \E call_ok \in BOOLEAN : Bound(D1DatabasesBind(bind_input, call_ok))

NextBind ==
    \/ BindQuery
    \/ BindTables
    \/ BindDatabases

SpecBind == InitBind /\ [][NextBind]_vars

-----------------------------------------------------------------------------
(* Specification of d1_attach and d1_attach_views with their remote calls  *)

NextAttach ==
    \/ \E p \in Threads, db_input \in {AliasA, UuidOfA}, secret_name \in {"s1"},
          alias_arg \in {NoAlias, AliasA}, secret_found \in BOOLEAN :
            AttachSecret(p, db_input, secret_name, alias_arg, secret_found)
    \/ \E p \in Threads, ok \in BOOLEAN : AttachResolved(p, ok)
    \/ \E p \in Threads, tables \in TableLists, ok \in BOOLEAN : AttachListed(p, tables, ok)
    \/ \E p \in Threads : AttachLock(p)
    \/ \E p \in Threads : AttachIndex(p)
    \/ \E p \in Threads : AttachAssignNames(p)
    \/ \E p \in Threads : AttachAssignTables(p)
    \/ \E alias \in RegistryAliases : D1DetachScalarFunction(alias)
    \/ \E p \in Threads, alias \in RegistryAliases : AttachViews(p, alias)
    \/ \E p \in Threads : ViewQuery(p)
    \/ \E p \in Threads : ViewCreated(p)
    \/ \E p \in Threads : ViewsDone(p)

SpecAttach == InitRegistry /\ [][NextAttach]_vars

-----------------------------------------------------------------------------
(* Claims about the rewriter                                               *)

LimitOverScanAt(pl, p) ==
    /\ At(pl, p).type = "LOGICAL_LIMIT"
    /\ IsD1Scan(At(pl, p).children[1])

TopNOverScanAt(pl, p) ==
    /\ At(pl, p).type = "LOGICAL_TOP_N"
    /\ IsD1Scan(SkipToGet(At(pl, p).children[1]))

\* C5: after a rewriter run, every constant LIMIT that stood directly over a
\* d1_scan is gone from the plan (the scan stands in its place) and the scan's
\* binding has limit = the constant; every non-constant LIMIT directly over a
\* d1_scan is still in the plan and its scan's binding limit is unchanged.
C5_ConstantLimitElidedParamKept ==
    runs >= 1 =>
        \A p \in Paths(prevPlan) :
            LimitOverScanAt(prevPlan, p) =>
                LET n == At(prevPlan, p)
                    b == n.children[1].bind
                IN  IF n.limit_type = "CONSTANT_VALUE"
                    THEN /\ At(plan, p) = n.children[1]
                         /\ bind_limit[b] = n.limit
                    ELSE /\ At(plan, p) = n
                         /\ bind_limit[b] = prevLimit[b]

C5_Witness ==
    /\ runs = 1
    /\ \E p, q \in Paths(prevPlan) :
        /\ LimitOverScanAt(prevPlan, p)
        /\ At(prevPlan, p).limit_type = "CONSTANT_VALUE"
        /\ At(prevPlan, p).limit > 0
        /\ At(plan, p).type = "LOGICAL_GET"
        /\ bind_limit[At(plan, p).bind] = At(prevPlan, p).limit
        /\ LimitOverScanAt(prevPlan, q)
        /\ At(prevPlan, q).limit_type = "EXPRESSION_VALUE"
        /\ At(plan, q).type = "LOGICAL_LIMIT"

\* C6: running the rewriter a second time on the already-rewritten plan
\* changes neither the plan nor any binding's limit field.
C6_Idempotent ==
    runs = 2 => (plan = prevPlan /\ bind_limit = prevLimit)

\* C7: after a rewriter run, every TOP_N whose child chain (skipping
\* projections and filters) ended in a d1_scan is still in the plan at the
\* same position, and that scan's binding has limit = the TOP_N's limit.
C7_TopNRetainedLimitSet ==
    runs >= 1 =>
        \A p \in Paths(prevPlan) :
            TopNOverScanAt(prevPlan, p) =>
                LET n == At(prevPlan, p)
                    b == SkipToGet(n.children[1]).bind
                IN  /\ At(plan, p) = n
                    /\ bind_limit[b] = n.limit

C7_Witness ==
    /\ runs = 1
    /\ \E p \in Paths(prevPlan) :
        /\ TopNOverScanAt(prevPlan, p)
        /\ At(prevPlan, p).children[1].type = "LOGICAL_FILTER"
        /\ prevLimit[SkipToGet(At(prevPlan, p).children[1]).bind] = 0
        /\ At(plan, p).type = "LOGICAL_TOP_N"
        /\ bind_limit[SkipToGet(At(plan, p).children[1]).bind] = At(plan, p).limit

\* C26: a run of the rewriter continues into the children of every node it
\* handles and is called on every node of the plan exactly once, whichever
\* branch handles the node.
C26_EveryNodeVisitedOnce ==
    runs >= 1 =>
        \A p \in Paths(prevPlan) :
            Cardinality({i \in 1..Len(visited) : visited[i] = p}) = 1

-----------------------------------------------------------------------------
(* Claims about the scan                                                   *)

\* C1: over any sequence of pulls on one binding, whatever the outcome of the
\* remote call (success, success=false, or a raised transport/HTTP error),
\* at most one SELECT is sent to the remote.
C1_SelectIssuedAtMostOnce == Len(sql_log) <= 1

IsLimitFilterScan(op) ==
    /\ op.type = "LOGICAL_LIMIT"
    /\ op.limit_type = "CONSTANT_VALUE"
    /\ op.children[1].type = "LOGICAL_FILTER"
    /\ IsD1Scan(op.children[1].children[1])

\* C3: for a plan LIMIT n (n >= 1, no offset) over a FILTER over a d1_scan,
\* the rows the rewritten plan returns once the scan is exhausted are the rows
\* the plan as bound returns over the whole remote table: the first n remote
\* rows that satisfy the filter.
C3_LimitOverFilterPreserved ==
    (/\ runs = 1
     /\ ScanExhausted
     /\ IsLimitFilterScan(origPlan)
     /\ origPlan.limit >= 1
     /\ origPlan.offset = 0)
    => HostEval(plan, emitted) = HostEval(origPlan, remote)

\* C4: once a constant LIMIT n (n >= 0) directly over the d1_scan has been
\* pushed down and elided, the scan returns at most n rows in total.
C4_ElidedLimitStillEnforced ==
    runs = 1 =>
        \A p \in Paths(origPlan) :
            (LimitOverScanAt(origPlan, p) /\ At(origPlan, p).limit_type = "CONSTANT_VALUE")
            => Len(emitted) <= At(origPlan, p).limit

\* The remote call of the first pull came back and reported failure.
CallRejected == executed /\ ~result.success

\* C11: a failed remote call at the first pull is fatal for the scan: the
\* pull raises, no second SELECT is ever sent on the binding, and no pull on
\* the binding returns rows of the failed result.
C11_FailedCallIsFatal ==
    /\ CallRejected => failed
    /\ (CallRejected /\ pulls = 1) => (raised # "" /\ output = <<>>)
    /\ failed => Len(sql_log) <= 1
    /\ CallRejected => emitted = <<>>

\* C12: across any sequence of pulls the rows returned so far are the
\* memoized result's rows up to the cursor, in the remote's order; a pull
\* returns the next min(STANDARD_VECTOR_SIZE, remaining) rows, so never more
\* than one vector batch; a pull with the cursor at the end returns no row.
C12_RowsOnceInOrderByBatch ==
    /\ current_row <= Len(result.results)
    /\ emitted = SubSeq(result.results, 1, current_row)
    /\ Len(output) <= STANDARD_VECTOR_SIZE
    /\ (pulls > 0 /\ raised = "") =>
        /\ output = SubSeq(result.results, pre_row + 1, current_row)
        /\ current_row = Min(pre_row + STANDARD_VECTOR_SIZE, Len(result.results))
        /\ pre_row = Len(result.results) => output = <<>>

C12_Witness ==
    /\ pulls >= 2
    /\ ~failed
    /\ Len(remote) = 3
    /\ result.results = remote
    /\ emitted = remote
    /\ pre_row = 3
    /\ output = <<>>

-----------------------------------------------------------------------------
(* Claims about predicate translation                                      *)

SupportedComparisons ==
    {"COMPARE_EQUAL", "COMPARE_NOTEQUAL", "COMPARE_LESSTHAN", "COMPARE_GREATERTHAN",
     "COMPARE_LESSTHANOREQUALTO", "COMPARE_GREATERTHANOREQUALTO"}

\* A comparison of a column with a constant, in either order, by one of the
\* six operators.
IsColumnVsConstant(e) ==
    /\ e.class = "BOUND_COMPARISON"
    /\ e.type \in SupportedComparisons
    /\ \/ e.children[1].class = "BOUND_COLUMN_REF" /\ e.children[2].class = "BOUND_CONSTANT"
       \/ e.children[1].class = "BOUND_CONSTANT" /\ e.children[2].class = "BOUND_COLUMN_REF"

IsAnd(e) == e.class = "BOUND_CONJUNCTION" /\ e.type = "CONJUNCTION_AND"

RemovedAt(i) == \E k \in 1..Len(filters_to_remove) : filters_to_remove[k] = i

\* C8: an AND conjunction handed to the pushdown is pushed (removed from the
\* host's list) iff every child is a column-vs-constant comparison; when some
\* child is not, the conjunction stays in the host's list, and an invocation
\* that pushes nothing leaves the WHERE accumulator as it was.
C8_NoPartialAndPushdown ==
    invocations >= 1 =>
        /\ Len(sql_conditions) = Len(filters_to_remove)
        /\ (filters_to_remove = <<>> => where_clause = prev_where)
        /\ \A i \in 1..Len(given) :
            IsAnd(given[i]) =>
                /\ RemovedAt(i) <=>
                     \A j \in 1..Len(given[i].children) :
                        IsColumnVsConstant(given[i].children[j])
                /\ ~RemovedAt(i) => \E j \in 1..Len(filters) : filters[j] = given[i]

C8_Witness ==
    /\ invocations = 1
    /\ given = <<EqA, Conjunction("CONJUNCTION_AND", <<LtA, FunctionCall>>)>>
    /\ filters = <<Conjunction("CONJUNCTION_AND", <<LtA, FunctionCall>>)>>
    /\ where_clause = "a = 1"

\* The remote's reading of a pushed predicate "col op literal".
SQLPredicates ==
    [col : {"a", "b"}, op : {"=", "!=", "<", ">", "<=", ">="},
     lit : {"NULL"} \cup {ToString(n) : n \in 0..MaxVal}]

FormatPredicate(p) == p.col \o " " \o p.op \o " " \o p.lit

RemoteParse(text) == CHOOSE p \in SQLPredicates : FormatPredicate(p) = text

NumberOf(lit) == CHOOSE n \in 0..MaxVal : ToString(n) = lit

SQLCompare(op, x, y) ==
    CASE op = "=" -> x = y
      [] op = "!=" -> x # y
      [] op = "<" -> x < y
      [] op = ">" -> x > y
      [] op = "<=" -> x <= y
      [] op = ">=" -> x >= y

\* The remote selects the row iff the predicate is true (not NULL) on it.
RemoteSelects(text, t) ==
    LET p == RemoteParse(text)
    IN  /\ ~t[p.col].is_null
        /\ p.lit # "NULL"
        /\ SQLCompare(p.op, t[p.col].v, NumberOf(p.lit))

\* The host's evaluation of the bound comparison on the row.
OperandValue(e, t) == IF e.class = "BOUND_COLUMN_REF" THEN t[e.name] ELSE e.value

LocalSelects(e, t) ==
    LET l == OperandValue(e.children[1], t)
        r == OperandValue(e.children[2], t)
    IN  /\ ~l.is_null
        /\ ~r.is_null
        /\ CASE e.type = "COMPARE_EQUAL" -> l.v = r.v
             [] e.type = "COMPARE_NOTEQUAL" -> l.v # r.v
             [] e.type = "COMPARE_LESSTHAN" -> l.v < r.v
             [] e.type = "COMPARE_GREATERTHAN" -> l.v > r.v
             [] e.type = "COMPARE_LESSTHANOREQUALTO" -> l.v <= r.v
             [] e.type = "COMPARE_GREATERTHANOREQUALTO" -> l.v >= r.v

ConstantOnLeft(e) == e.children[1].class = "BOUND_CONSTANT"

OperatorSymbol ==
    [t \in SupportedComparisons |->
        CASE t = "COMPARE_EQUAL" -> "="
          [] t = "COMPARE_NOTEQUAL" -> "!="
          [] t = "COMPARE_LESSTHAN" -> "<"
          [] t = "COMPARE_GREATERTHAN" -> ">"
          [] t = "COMPARE_LESSTHANOREQUALTO" -> "<="
          [] t = "COMPARE_GREATERTHANOREQUALTO" -> ">="]

MirroredSymbol(op) ==
    CASE op = "<" -> ">"
      [] op = ">" -> "<"
      [] op = "<=" -> ">="
      [] op = ">=" -> "<="
      [] OTHER -> op

\* C9: for each of the six operators and both operand orders the emitted text
\* is a predicate "column op literal" on the compared column, with the
\* operator mirrored when the constant is on the left, and the remote selects
\* a row by it exactly when the host's comparison selects the row.
C9_MirroredComparisonEquivalent ==
    (translated /\ comp.type \in SupportedComparisons) =>
        /\ \E p \in SQLPredicates :
            /\ FormatPredicate(p) = comp_sql
            /\ p.col = (IF ConstantOnLeft(comp) THEN comp.children[2].name
                        ELSE comp.children[1].name)
            /\ p.op = (IF ConstantOnLeft(comp)
                       THEN MirroredSymbol(OperatorSymbol[comp.type])
                       ELSE OperatorSymbol[comp.type])
        /\ RemoteSelects(comp_sql, tuple) = LocalSelects(comp, tuple)

C9_Witness ==
    /\ translated
    /\ comp = Comparison("COMPARE_LESSTHANOREQUALTO", Constant(IntegerValue(1)), ColumnRef("a"))
    /\ comp_sql = "a >= 1"
    /\ tuple.a = IntegerValue(2)
    /\ RemoteSelects(comp_sql, tuple)

\* C10: after any sequence of pushdown invocations the WHERE accumulator is
\* the " AND "-join of the texts of the filters removed from the host's lists,
\* in push order, and the host's list holds the filters that did not
\* translate, in their original order.
C10_WhereIsAndJoinOfPushed ==
    /\ where_clause = JoinAnd(pushed_log)
    /\ LET NotTranslated(f) == FilterToSQL(f) = ""
       IN  filters = SelectSeq(given, NotTranslated)

-----------------------------------------------------------------------------
(* Claims about the transaction                                            *)

BatchFailed(res) ==
    \/ ~res.success
    \/ \E i \in 1..Len(res.results) : ~res.results[i].success

SentBatch == last_call = "Commit" /\ pre_started /\ pre_buffer # <<>>

\* C2: a Commit whose batch call reports failure, or one of whose
\* per-statement results reports failure, raises an error carrying that
\* failure (for a per-statement failure, the message of the first failing
\* statement in buffer order) and leaves buffered_statements and is_started
\* as they were; the buffer is cleared only when nothing failed.
C2_CommitClearsOnlyOnFullSuccess ==
    SentBatch =>
        /\ BatchFailed(batch_result) =>
            /\ commit_error # ""
            /\ buffered_statements = pre_buffer
            /\ is_started = pre_started
        /\ (~batch_result.raised /\ ~batch_result.success) =>
            commit_error = "D1 batch commit failed: " \o batch_result.error
        /\ (batch_result.success /\ BatchFailed(batch_result)) =>
            \E i \in 1..Len(pre_buffer) :
                /\ ~batch_result.results[i].success
                /\ \A j \in 1..(i - 1) : batch_result.results[j].success
                /\ commit_error = "D1 statement " \o ToString(i - 1) \o " failed: "
                                  \o batch_result.results[i].error
        /\ buffered_statements = <<>> => ~BatchFailed(batch_result)

C2_Witness ==
    /\ SentBatch
    /\ Len(pre_buffer) = 3
    /\ batch_result.success
    /\ batch_result.results[1].success
    /\ ~batch_result.results[2].success
    /\ ~batch_result.results[3].success
    /\ commit_error = "D1 statement 1 failed: constraint failed in 2"
    /\ buffered_statements = pre_buffer
    /\ is_started

\* C13: a Commit on a started transaction with a non-empty buffer makes
\* exactly one batch call, carrying all buffered statements in buffering
\* order; a Commit with an empty buffer, or on a transaction that is not
\* started, makes no remote call.
C13_CommitSendsOneBatchInOrder ==
    last_call = "Commit" =>
        IF pre_started /\ pre_buffer # <<>>
        THEN /\ batch_calls = pre_calls + 1
             /\ last_batch = pre_buffer
        ELSE /\ batch_calls = pre_calls
             /\ commit_error = ""

C13_Witness ==
    /\ last_call = "Commit"
    /\ pre_started
    /\ pre_buffer = <<"INSERT", "UPDATE", "INSERT">>
    /\ last_batch = pre_buffer
    /\ batch_calls = 1

\* C14: a Rollback of a started transaction leaves the buffer empty and
\* is_started false, and makes no remote call.
C14_RollbackDiscardsSendsNothing ==
    (last_call = "Rollback" /\ pre_started) =>
        /\ buffered_statements = <<>>
        /\ ~is_started
        /\ batch_calls = pre_calls

C14_Witness ==
    /\ last_call = "Rollback"
    /\ pre_started
    /\ Len(pre_buffer) = 2
    /\ buffered_statements = <<>>
    /\ ~is_started
    /\ batch_calls = 0

\* C15: over any sequence of BufferStatement, Commit and Rollback calls on
\* one transaction, no buffered statement is sent to the remote in more than
\* one batch call.
C15_StatementSentAtMostOnce == ~resent

\* C17: ExecuteRead sends its statement to the remote at once and leaves
\* buffered_statements and is_started as they were, sending no batch;
\* buffering sends nothing either, so while no Commit has sent a batch no
\* buffered statement has reached the remote and a read sees the remote
\* without the transaction's pending writes.
C17_ReadBypassesBuffer ==
    /\ last_call = "ExecuteRead" =>
        /\ last_read # ""
        /\ buffered_statements = pre_buffer
        /\ is_started = pre_started
        /\ batch_calls = pre_calls
        /\ last_batch = <<>>
    /\ last_call = "BufferStatement" =>
        /\ batch_calls = pre_calls
        /\ last_batch = <<>>
        /\ last_read = ""
    /\ batch_calls = 0 => (sent_upto = 0 /\ ~resent)

C17_Witness ==
    /\ last_call = "ExecuteRead"
    /\ last_read = "SELECT"
    /\ is_started
    /\ Len(buffered_statements) = 2
    /\ batch_calls = 0
    /\ sent_upto = 0

\* C16: after CommitTransaction or RollbackTransaction has returned for a
\* transaction, with success or with an error, the transaction is no longer
\* in the transactions map.
C16_EntryRemovedOnCommitOrRollback ==
    last_call \in {"Commit", "Rollback"} => Txn \notin transactions

-----------------------------------------------------------------------------
(* Claims about the registry                                               *)

\* C18: under any interleaving of attaches, detaches and lookups the registry
\* never holds two entries under one alias, and whenever the registry can be
\* observed (the mutex is free) each entry is, in all its fields, what the
\* attach that last wrote under its alias stored.
C18_OneEntryPerAliasLastWriterWins ==
    /\ \A e1, e2 \in g_d1_attached_databases : e1.alias = e2.alias => e1 = e2
    /\ g_d1_registry_mutex = 0 =>
        \A e \in g_d1_attached_databases : e = last_writer[e.alias]

C18_Witness ==
    /\ overwrote
    /\ g_d1_registry_mutex = 0
    /\ pc = [p \in Threads |-> "idle"]
    /\ last_writer[AliasA] = Entry(AliasA, "s2", AliasB, DatabaseId(AliasB), {TableT, TableBT})
    /\ g_d1_attached_databases = {last_writer[AliasA]}

\* C19: a replacement scan rewrites a name to a d1_scan only if the name has
\* the form alias.table with a non-empty alias that is attached at that time
\* (attached and not detached since) and a table in that attachment's cached
\* table list; the d1_scan names that table and that attachment's secret and
\* database id.  A name without a dot is never rewritten.
C19_ReplacementNeedsAttachedAlias ==
    last_op = "lookup" =>
        /\ (\A i \in 1..Len(input_table_name) : input_table_name[i] # ".") =>
                replacement = NoReplacement
        /\ replacement # NoReplacement =>
            \E i \in 2..Len(input_table_name) :
                LET alias == SubSeq(input_table_name, 1, i - 1)
                    table == SubSeq(input_table_name, i + 1, Len(input_table_name))
                IN  /\ input_table_name[i] = "."
                    /\ alias \in RegistryAliases
                    /\ last_writer[alias] # NoEntry
                    /\ table \in last_writer[alias].tables
                    /\ replacement = [function |-> "d1_scan", table_name |-> table,
                                      secret_name |-> last_writer[alias].secret_name,
                                      database_id |-> last_writer[alias].database_id]

C19_Witness ==
    /\ last_op = "lookup"
    /\ input_table_name = AliasA \o <<".">> \o TableBT
    /\ last_writer[AliasB] # NoEntry
    /\ replacement = [function |-> "d1_scan", table_name |-> TableBT,
                      secret_name |-> "s1", database_id |-> UuidOfA]

-----------------------------------------------------------------------------
(* Claims about the type mapping                                           *)

\* The rules in the stated order: INT; CHAR, CLOB or TEXT; BOOL; DATE; TIME;
\* BLOB or empty; REAL, FLOA or DOUB; otherwise text.
StatedType(type) ==
    LET Has(m) == Contains(UpperCase(type), m)
    IN  CASE Has(<<"I", "N", "T">>) -> "BIGINT"
          [] OTHER ->
        CASE \/ Has(<<"C", "H", "A", "R">>)
             \/ Has(<<"C", "L", "O", "B">>)
             \/ Has(<<"T", "E", "X", "T">>) -> "VARCHAR"
          [] OTHER ->
        CASE Has(<<"B", "O", "O", "L">>) -> "BOOLEAN"
          [] OTHER ->
        CASE Has(<<"D", "A", "T", "E">>) -> "DATE"
          [] OTHER ->
        CASE Has(<<"T", "I", "M", "E">>) -> "TIMESTAMP"
          [] OTHER ->
        CASE Has(<<"B", "L", "O", "B">>) \/ type = <<>> -> "BLOB"
          [] OTHER ->
        CASE \/ Has(<<"R", "E", "A", "L">>)
             \/ Has(<<"F", "L", "O", "A">>)
             \/ Has(<<"D", "O", "U", "B">>) -> "DOUBLE"
          [] OTHER -> "VARCHAR"

\* C20: for every declared type, several markers included, the mapped type is
\* that of the first rule that matches in the order INT, CHAR/CLOB/TEXT,
\* BOOL, DATE, TIME, BLOB-or-empty, REAL/FLOA/DOUB, else text.
C20_TypeRulesInStatedOrder ==
    type_mapped => logical_type = StatedType(sqlite_type)

-----------------------------------------------------------------------------
(* Claims about the response parser                                        *)

\* The keys of a row object, in the order written.
KeysOf(row) == [i \in 1..Len(row) |-> row[i].key]
KeySet(row) == {row[i].key : i \in 1..Len(row)}

\* The keys of all row objects, in the order written.
RECURSIVE AllKeys(_)
AllKeys(rows) == IF rows = <<>> THEN <<>> ELSE KeysOf(Head(rows)) \o AllKeys(Tail(rows))

FirstIndex(keys, key) == CHOOSE i \in 1..Len(keys) :
    /\ keys[i] = key
    /\ \A j \in 1..(i - 1) : keys[j] # key

\* No string of the row objects holds a brace.
BraceFree(rows) ==
    \A i \in 1..Len(rows) : \A m \in 1..Len(rows[i]) :
        \A p \in 1..Len(rows[i][m].json) : rows[i][m].json[p] \notin {"{", "}"}

IsJsonString(json) == json # <<>> /\ Head(json) = Quote
StringContent(json) == SubSeq(json, 2, Len(json) - 1)

\* C22: a null cell and an empty-string cell stay distinct up to the rows
\* emitted: in a text column, a cell that was null in the response is NULL
\* in the output and a cell that was a string, the empty string included, is
\* that text.
C22_NullAndEmptyStringDistinct ==
    (cells_done /\ column_type = "VARCHAR" /\ BraceFree(json_rows)) =>
        \A i \in 1..Len(json_rows) : \A m \in 1..Len(json_rows[i]) :
            \A c \in 1..Len(column_order) :
                column_order[c] = json_rows[i][m].key =>
                    /\ json_rows[i][m].json = JsonNull => cells[i][c].is_null
                    /\ IsJsonString(json_rows[i][m].json) =>
                          cells[i][c] = TextCell(StringContent(json_rows[i][m].json))

\* The mapping claimed for a row object: each key with the text of its value.
StoredText(json) ==
    IF IsJsonString(json) THEN StringContent(json)
    ELSE IF json = JsonNull THEN <<>>
    ELSE IF json = JsonTrue THEN <<"1">>
    ELSE json

\* C27: a brace or bracket inside a string never changes the number of rows
\* or where a row ends: the parser yields one mapping per row object, with
\* the values of that row.
C27_BracesInStringsIgnored ==
    parse_done =>
        /\ Len(parsed_rows) = Len(json_rows)
        /\ \A i \in 1..Len(json_rows) : \A m \in 1..Len(json_rows[i]) :
              /\ json_rows[i][m].key \in DOMAIN parsed_rows[i]
              /\ parsed_rows[i][json_rows[i][m].key] = StoredText(json_rows[i][m].json)

-----------------------------------------------------------------------------
(* Claims about the binding of the table functions                         *)

\* The value a setting is obtained as: from the first source that is given,
\* in the order secret, parameter, environment variable; empty when none.
ObtainedCredential(input, field, parameter, env) ==
    IF input.secret # Absent
    THEN IF input.secret \in DOMAIN SecretStore THEN SecretStore[input.secret][field] ELSE ""
    ELSE IF parameter # Absent THEN parameter
    ELSE IF env # Absent THEN env
    ELSE ""

\* No database is named and no database id is obtained.
DatabaseIdMissing(input) ==
    IF input.database_id # Absent THEN input.database_id = ""
    ELSE IF input.database # Absent THEN FALSE
    ELSE IF input.env_database_id # Absent THEN input.env_database_id = ""
    ELSE TRUE

ConfigurationMissing ==
    \/ ObtainedCredential(bind_input, "account_id", bind_input.account_id,
                          bind_input.env_account_id) = ""
    \/ ObtainedCredential(bind_input, "api_token", bind_input.api_token,
                          bind_input.env_api_token) = ""
    \/ bind_function # "d1_databases" /\ DatabaseIdMissing(bind_input)

\* C23: when the account id, the API token or the database id cannot be
\* obtained from secret, parameter or environment variable, the bind of
\* d1_query, d1_tables and d1_databases raises a binder error and no HTTP
\* request has been issued.
C23_ConfigurationErrorFailsFast ==
    (bind_done /\ ConfigurationMissing) =>
        /\ bind_error = "BinderException"
        /\ http_requests = 0

-----------------------------------------------------------------------------
(* Claims about the rows a query returns after the LIMIT pushdown          *)

\* C24: for a TOP_N (ORDER BY ... LIMIT n) over a d1_scan, the rows the
\* query returns after the pushdown are the rows it returns without it: the
\* first n rows, in the requested order, of the whole filtered remote table.
C24_TopNRowsPreserved ==
    (/\ runs = 1
     /\ ScanExhausted
     /\ TopNOverScanAt(origPlan, <<>>))
    => HostEval(plan, emitted) = HostEval(origPlan, remote)

\* A constant LIMIT n (n >= 1) with an offset over a d1_scan, with no filter
\* between.
IsOffsetLimitOverScan(op) ==
    /\ op.type = "LOGICAL_LIMIT"
    /\ op.limit_type = "CONSTANT_VALUE"
    /\ op.limit >= 1
    /\ op.offset >= 1
    /\ \/ IsD1Scan(op.children[1])
       \/ /\ op.children[1].type = "LOGICAL_PROJECTION"
          /\ IsD1Scan(op.children[1].children[1])

\* C28: a pushed-down and elided LIMIT n with a non-zero OFFSET k still
\* returns the rows k+1 .. k+n of the remote table: the offset is not dropped.
C28_OffsetKeptByElidedLimit ==
    (/\ runs = 1
     /\ ScanExhausted
     /\ IsOffsetLimitOverScan(origPlan))
    => HostEval(plan, emitted) = Window(remote, origPlan.offset, origPlan.limit)

-----------------------------------------------------------------------------
(* Claims about the remote calls of the registry's users                   *)

\* C25: the registry mutex is held only for the lookup, insert or erase
\* itself: no thread holds g_d1_registry_mutex while a remote call made on
\* its behalf is in flight.
C25_NoLockAcrossRemoteCall ==
    \A p \in Threads : g_d1_registry_mutex = p => in_flight[p] = ""

\* Thread p's d1_attach raises in this step.
AttachRaises(p) == attach_raised[p].error = "" /\ attach_raised'[p].error # ""

\* Thread p's d1_attach is in its registration block.
Registering(p) == pc[p] \in {"locked", "indexed", "named"}

\* C30: d1_attach changes the registry only after every remote step
\* succeeded: a step in which an attach raises (secret lookup, database
\* lookup or table listing failed) leaves the registry, with any entry under
\* the same alias, as it was, and any step of an attach that changes the
\* registry is a step of its registration block, which is reached only with
\* the table list fetched.
C30_FailedAttachLeavesRegistry ==
    [][/\ \A p \in Threads :
            AttachRaises(p) => g_d1_attached_databases' = g_d1_attached_databases
       /\ (last_op' = "attach" /\ g_d1_attached_databases' # g_d1_attached_databases)
            => \E p \in Threads : Registering(p) /\ pc'[p] # pc[p]]_vars

\* An attach under an alias that is attached has raised after its remote
\* steps began; the entry under the alias is still what the earlier attach
\* stored.
C30_Witness ==
    \E p \in Threads :
        /\ attach_raised[p].error = "IOException"
        /\ attach_raised[p].alias = AliasA
        /\ last_writer[AliasA] # NoEntry
        /\ last_writer[AliasA] \in g_d1_attached_databases

-----------------------------------------------------------------------------
(* Claims about the transaction's state                                    *)

\* C29: after any sequence of Start, BufferStatement, Commit (succeeding or
\* failing) and Rollback, a transaction that is not started has an empty
\* statement buffer.
C29_NotStartedImpliesEmptyBuffer ==
    ~is_started => buffered_statements = <<>>

\* A commit of two buffered statements succeeded: the transaction is not
\* started and its buffer is empty.
C29_Witness ==
    /\ last_call = "Commit"
    /\ pre_started
    /\ Len(pre_buffer) = 2
    /\ commit_error = ""
    /\ ~is_started
    /\ buffered_statements = <<>>

====
